---------------------------- MODULE Spec2Model ----------------------------
(***************************************************************************)
(* Order / inventory / coupon logic of the storefront backend.             *)
(*                                                                         *)
(* The repository holds two definitions of OrderController in              *)
(* order.controller.js (lines 13-1213 and 1221-1660).  Both are modelled,  *)
(* as operations on one document store: the first as CreateOrder,          *)
(* UpdateOrderStatus, CancelOrder; the second as CreateOrder2,             *)
(* CancelOrder2.  PaymentController (product.controller.js 1321-1621) is   *)
(* modelled by CreatePaymentIntent, HandlePaymentSuccess,                  *)
(* HandlePaymentFailure and ProcessRefund, each as a method called on the  *)
(* controller instance.                                                    *)
(*                                                                         *)
(* CartController (part_001) is modelled by AddToCart, UpdateCartItem,     *)
(* RemoveFromCart, ClearCart, MergeGuestCart, SaveForLater,                *)
(* GetCart, ApplyCartCoupon and RemoveCartCoupon; ReviewController by      *)
(* CreateReview, UpdateReview, DeleteReview, ReportReview and              *)
(* ModerateReview; the return requests of the first OrderController by     *)
(* RequestReturn; the address book of UserController (part_002) by         *)
(* ManageAddresses.  CreateOrderStore, ReserveFind and ReserveSave are the *)
(* first createOrder taken step by step through its reservation loop.      *)
(*                                                                         *)
(* Each specification draws its requests from small sets: Spec (order life *)
(* cycle), SpecInventory, SpecStock, SpecCoupons, SpecRace, SpecOversell,  *)
(* SpecReserve and SpecCancel (overlapping requests), SpecPay,             *)
(* SpecWebhook, SpecPoints, SpecFailure and SpecSteps (throwing calls),    *)
(* SpecCart, SpecQuantity, SpecTotals, SpecDiscount, SpecReviews,          *)
(* SpecReports, SpecReturns, SpecAddresses.                                *)
(*                                                                         *)
(* Money is in cents.  The prices of the catalogue are multiples of 25     *)
(* cents, so that the 8% tax of every subtotal is a whole number of cents. *)
(***************************************************************************)
EXTENDS Integers, Sequences, FiniteSets, TLC

\* ------------------------------------------------------------------ bounds

\* Orders the store can hold.
MaxOrders == 2
\* Largest quantity of one line item.
MaxQty == 2
\* Requests that can be in flight at once (interleaved specifications).
MaxInFlight == 2
\* Payment events the gateway delivers.
MaxWebhooks == 2
\* Requests that meet a throwing store or gateway call.
MaxFaults == 1

\* ------------------------------------------------------------- catalogue

Users == {"u1", "u2"}

\* The one product of the catalogue and its one variant.
ProductId == "P"
VariantSku == "V"
NoSku == "none"

\* Inventory records: the product's own record and the variant's.
Recs == {"base", VariantSku}

\* product.price.base and variant.priceAdjustment
PriceBase == [base |-> 5000, V |-> 10000]

\* The stock the catalogue starts with: quantity per inventory record.
InitQuantity == [base |-> 2, V |-> 1]

NoCoupon == "none"

\* The coupon documents (Coupon model): all active and inside their window.
Coupons ==
  [SAVE20 |-> [discountType |-> "fixed", discountValue |-> 2000,
               maxDiscountAmount |-> 0, minimumPurchase |-> 10000,
               usageLimit |-> 2, userUsageLimit |-> 1, appliesTo |-> "subtotal"],
   SHIP5  |-> [discountType |-> "fixed", discountValue |-> 500,
               maxDiscountAmount |-> 0, minimumPurchase |-> 0,
               usageLimit |-> 0, userUsageLimit |-> 0, appliesTo |-> "shipping"],
   FIRST1 |-> [discountType |-> "fixed", discountValue |-> 1000,
               maxDiscountAmount |-> 0, minimumPurchase |-> 0,
               usageLimit |-> 1, userUsageLimit |-> 0, appliesTo |-> "subtotal"],
   BIG60  |-> [discountType |-> "fixed", discountValue |-> 6000,
               maxDiscountAmount |-> 0, minimumPurchase |-> 0,
               usageLimit |-> 0, userUsageLimit |-> 0, appliesTo |-> "subtotal"],
   HALF50 |-> [discountType |-> "percentage", discountValue |-> 50,
               maxDiscountAmount |-> 3000, minimumPurchase |-> 0,
               usageLimit |-> 0, userUsageLimit |-> 0, appliesTo |-> "subtotal"]]

CouponCodes == DOMAIN Coupons

\* What shippingService.calculateShipping may answer.
ShippingCosts == {0, 1000}

\* ------------------------------------------------------------------ state

VARIABLES
  inventory,       \* [Recs -> [quantity, reserved, sold]]: product.inventory and variants[].inventory
  allowBackorders, \* product.inventory.allowBackorders
  sale,            \* product.price.sale while it is active: type and amount
  totals,          \* the totals of the last cart response that carried any
  addresses,       \* [Users -> sequence of addresses]: user.addresses, each with its id and isDefault
  metadata,        \* [stock, reserved]: product.metadata.stock / metadata.reserved
  variantStock,    \* variants[].stock
  orders,          \* sequence of order documents; an order's id is its index
  usedCount,       \* [CouponCodes -> Nat]: coupon.usedCount
  usageHistory,    \* [CouponCodes -> Nat]: length of coupon.usageHistory
  carts,           \* [Users -> cart document]: the stored cart of each user, if any
  reqs,            \* requests in flight: what each has read so far
  loyaltyPoints,   \* [Users -> Nat]: user.loyaltyPoints
  webhooks,        \* payment events handled so far
  faults,          \* requests that met a throwing store or gateway call so far
  wishlists,       \* [Users -> set of products]: user.wishlist
  refunds,         \* the orders for which the payment adapter was asked for a refund
  reviews,         \* [Reviewers -> review document]: the review each user wrote of the product, if any
  ratings,         \* product.ratings: average (in tenths), count, distribution
  last,            \* the response of the last finished request
  ledger           \* history: per order, what it has added to each reserved counter and not taken back

vars == <<inventory, allowBackorders, sale, totals, addresses, metadata, variantStock, orders,
          usedCount, usageHistory, carts, reqs, loyaltyPoints, webhooks, faults,
          wishlists, refunds, reviews, ratings, last, ledger>>

NoResponse == [op |-> "none", order |-> 0, code |-> 0, error |-> "none"]

Response(op, o, code, error) ==
  [op |-> op, order |-> o, code |-> code, error |-> error]

\* The cart collection holds at most one document per user.  A stored cart has
\* its lines (variantSku, quantity, the price recorded when the line was added;
\* 0 when none was recorded) and the coupon attached to it with its discount.
NoCart == [exists |-> FALSE, items |-> <<>>, coupon |-> NoCoupon, discount |-> 0]

CartLine(sku, q, price) == [sku |-> sku, quantity |-> q, price |-> price]

\* A cart that holds one unit of the product.
StartCart ==
  [exists |-> TRUE, items |-> <<CartLine(NoSku, 1, PriceBase["base"])>>,
   coupon |-> NoCoupon, discount |-> 0]

\* The users who write reviews.
Reviewers == Users \cup {"u3"}

\* A user has at most one review of the product (createReview refuses a
\* second one), so a review is named by its author.
NoReview == [exists |-> FALSE, rating |-> 0, status |-> "none", reports |-> {}]

\* product.price.sale: no sale is active, or one of the two kinds the price
\* calculation knows.
NoSale == [type |-> "none", amount |-> 0]

Sales == {NoSale, [type |-> "percentage", amount |-> 20], [type |-> "fixed", amount |-> 500]}

\* The totals of a response for a user without a cart (part_001 lines 20-28).
NoTotals == [subtotal |-> 0, tax |-> 0, shipping |-> 0, discount |-> 0, total |-> 0]

\* product.ratings of a product nobody has rated.
NoRatings == [average |-> 0, count |-> 0, distribution |-> [r \in 1 .. 5 |-> 0]]

Init ==
  /\ inventory = [r \in Recs |-> [quantity |-> InitQuantity[r], reserved |-> 0, sold |-> 0]]
  /\ allowBackorders \in BOOLEAN
  /\ sale = NoSale
  /\ totals = NoTotals
  /\ addresses = [u \in Users |-> <<>>]
  /\ metadata = [stock |-> InitQuantity["base"], reserved |-> 0]
  /\ variantStock = InitQuantity[VariantSku]
  /\ orders = <<>>
  /\ usedCount = [c \in CouponCodes |-> 0]
  /\ usageHistory = [c \in CouponCodes |-> 0]
  /\ carts \in [Users -> {NoCart, StartCart}]
  /\ reqs = {}
  /\ loyaltyPoints = [u \in Users |-> 0]
  /\ webhooks = 0
  /\ faults = 0
  /\ wishlists = [u \in Users |-> {}]
  /\ refunds = {}
  /\ reviews = [u \in Reviewers |-> NoReview]
  /\ ratings = NoRatings
  /\ last = NoResponse
  /\ ledger = <<>>


\* ------------------------------------------------------------ Product model

\* The inventory record an item names: the variant's when a sku is given.
RecOf(sku) == IF sku = NoSku THEN "base" ELSE sku

\* An inventory method whose sell only gives the reservation back: the
\* quantity on hand and the sold counter stay.
productUpdateInventoryNoSell(inv, q, sku, action) ==
  LET r == RecOf(sku)
      old == inv[r]
  IN  CASE action = "reserve" ->
             [inv EXCEPT ![r] = [old EXCEPT !.reserved = old.reserved + q]]
        [] action \in {"sell", "release"} ->
             [inv EXCEPT ![r] = [old EXCEPT !.reserved = old.reserved - q]]
        [] OTHER -> inv

\* Product.prototype.updateInventory(quantity, variantSku, action): the model
\* method the controllers call.  reserve adds to reserved; sell takes the
\* quantity out of quantity and reserved and adds it to sold; release takes it
\* out of reserved.
productUpdateInventory(inv, q, sku, action) ==
  LET r == RecOf(sku)
      old == inv[r]
  IN  CASE action = "reserve" ->
             [inv EXCEPT ![r] = [old EXCEPT !.reserved = old.reserved + q]]
        [] action = "sell" ->
             [inv EXCEPT ![r] = [quantity |-> old.quantity - q,
                                 reserved |-> old.reserved - q,
                                 sold |-> old.sold + q]]
        [] action = "release" ->
             [inv EXCEPT ![r] = [old EXCEPT !.reserved = old.reserved - q]]
        [] OTHER -> inv

\* ------------------------------------------------------------ request inputs

Quantities == 1 .. MaxQty

\* A line of an order request: {productId, variantSku?, quantity}.
Line(p, sku, q) == [product |-> p, sku |-> sku, quantity |-> q]

ValidLines == {Line(ProductId, sku, q) : sku \in {NoSku, VariantSku}, q \in Quantities}

\* Lines that name an unknown product or an unknown variant.
BadLines == {Line("nope", NoSku, 1), Line(ProductId, "bad", 1)}

PaymentMethods == {"cod", "credit_card"}

RECURSIVE SumOver(_, _, _)
\* Sum of f[i] for i in lo..hi.
SumOver(f, lo, hi) == IF lo > hi THEN 0 ELSE f[lo] + SumOver(f, lo + 1, hi)

Max(a, b) == IF a > b THEN a ELSE b
Min(a, b) == IF a < b THEN a ELSE b

\* Quantity an item list holds for inventory record r.
QtyFor(items, r) ==
  SumOver([i \in 1 .. Len(items) |->
             IF RecOf(items[i].sku) = r THEN items[i].quantity ELSE 0],
          1, Len(items))

\* ------------------------------------------------ OrderController.createOrder

\* A stock check that compares the quantity asked with the quantity on hand,
\* whatever is reserved.
RECURSIVE CheckItemsOnHand(_, _, _, _)
CheckItemsOnHand(items, i, inv, backorders) ==
  IF i > Len(items) THEN <<0, "none">>
  ELSE LET item == items[i] IN
       IF item.product # ProductId THEN <<404, "ProductNotFound">>
       ELSE IF item.sku \notin {NoSku, VariantSku} THEN <<400, "VariantNotFound">>
       ELSE LET rec == inv[RecOf(item.sku)]
                availableStock == rec.quantity
            IN  IF availableStock < item.quantity /\ ~backorders
                  THEN <<400, "InsufficientStock">>
                  ELSE CheckItemsOnHand(items, i + 1, inv, backorders)

\* A check of the product and the variant only: no line is refused for stock.
RECURSIVE CheckItemsAnyStock(_, _, _, _)
CheckItemsAnyStock(items, i, inv, backorders) ==
  IF i > Len(items) THEN <<0, "none">>
  ELSE LET item == items[i] IN
       IF item.product # ProductId THEN <<404, "ProductNotFound">>
       ELSE IF item.sku \notin {NoSku, VariantSku} THEN <<400, "VariantNotFound">>
       ELSE CheckItemsAnyStock(items, i + 1, inv, backorders)

\* Lines 75-108: the first line that is refused, as <<status, error>>, checked
\* in request order against the counters as they are when the request runs.
RECURSIVE CheckItems(_, _, _, _)
CheckItems(items, i, inv, backorders) ==
  IF i > Len(items) THEN <<0, "none">>
  ELSE LET item == items[i] IN
       IF item.product # ProductId THEN <<404, "ProductNotFound">>
       ELSE IF item.sku \notin {NoSku, VariantSku} THEN <<400, "VariantNotFound">>
       ELSE LET rec == inv[RecOf(item.sku)]
                availableStock == rec.quantity - rec.reserved
            IN  IF availableStock < item.quantity /\ ~backorders
                  THEN <<400, "InsufficientStock">>
                  ELSE CheckItems(items, i + 1, inv, backorders)

\* The price calculation with the sale left out.
SalePriceIgnored(basePrice, s) == basePrice

\* Lines 115-126, and the same lines of calculateItemPrice (part_001 lines
\* 808-818): the price after the product's sale, when one is active.
SalePrice(basePrice, s) ==
  CASE s.type = "percentage" -> (basePrice * (100 - s.amount)) \div 100
    [] s.type = "fixed" -> Max(0, basePrice - s.amount)
    [] OTHER -> basePrice

\* Lines 110-134: finalPrice * quantity summed over the lines.
Subtotal(items) ==
  SumOver([i \in 1 .. Len(items) |->
             SalePrice(PriceBase[RecOf(items[i].sku)], sale) * items[i].quantity],
          1, Len(items))

\* Lines 1272-1295: finalPrice * quantity summed over the lines, for a product
\* without product.discount.
Subtotal2(items) ==
  SumOver([i \in 1 .. Len(items) |->
             PriceBase[RecOf(items[i].sku)] * items[i].quantity],
          1, Len(items))

\* Line 196: Order.countDocuments({user, 'discounts.code': code}).
UserUsageCount(ords, u, code) ==
  Cardinality({o \in 1 .. Len(ords) :
                 ords[o].user = u /\ ords[o].discountCode = code})

\* Coupon checks that let a user go one order past the per-user limit.
CheckCouponLax(coupon, used, userUsage, subtotal) ==
  IF coupon.usageLimit # 0 /\ used >= coupon.usageLimit
    THEN <<400, "CouponUsageLimit">>
  ELSE IF coupon.userUsageLimit # 0 /\ userUsage > coupon.userUsageLimit
    THEN <<400, "CouponUserLimit">>
  ELSE IF coupon.minimumPurchase # 0 /\ subtotal < coupon.minimumPurchase
    THEN <<400, "MinimumPurchase">>
  ELSE <<0, "none">>

\* Lines 186-215: the coupon checks, as <<status, error>>; `used` is the
\* usedCount of the coupon document the request has read.
CheckCoupon(coupon, used, userUsage, subtotal) ==
  IF coupon.usageLimit # 0 /\ used >= coupon.usageLimit
    THEN <<400, "CouponUsageLimit">>
  ELSE IF coupon.userUsageLimit # 0 /\ userUsage >= coupon.userUsageLimit
    THEN <<400, "CouponUserLimit">>
  ELSE IF coupon.minimumPurchase # 0 /\ subtotal < coupon.minimumPurchase
    THEN <<400, "MinimumPurchase">>
  ELSE <<0, "none">>

\* Lines 217-225: couponDiscount.
CouponDiscount(coupon, subtotal) ==
  CASE coupon.discountType = "percentage" ->
         LET d == (subtotal * coupon.discountValue) \div 100
         IN  IF coupon.maxDiscountAmount # 0
               THEN Min(d, coupon.maxDiscountAmount) ELSE d
    [] coupon.discountType = "fixed" -> coupon.discountValue
    [] OTHER -> 0

\* Lines 250-258: shippingDiscount.
ShippingDiscount(coupon, shippingCost) ==
  IF coupon.appliesTo = "shipping"
    THEN CASE coupon.discountType = "percentage" ->
                (shippingCost * coupon.discountValue) \div 100
           [] coupon.discountType = "fixed" ->
                Min(coupon.discountValue, shippingCost)
           [] OTHER -> 0
    ELSE 0

\* Lines 227-300: payment.amount of the order document, from the undiscounted
\* subtotal, the coupon found (or none) and the shipping cost quoted.
OrderAmount(subtotal0, code, shippingCost) ==
  LET hasCoupon == code \in CouponCodes
      couponDiscount == IF hasCoupon THEN CouponDiscount(Coupons[code], subtotal0) ELSE 0
      subtotal == IF hasCoupon /\ Coupons[code].appliesTo # "shipping"
                    THEN Max(0, subtotal0 - couponDiscount) ELSE subtotal0
      shippingDiscount == IF hasCoupon THEN ShippingDiscount(Coupons[code], shippingCost) ELSE 0
      finalShippingCost == Max(0, shippingCost - shippingDiscount)
      taxAmount == (subtotal * 8) \div 100
  IN  [subtotal |-> subtotal,
       shipping |-> finalShippingCost,
       tax |-> taxAmount,
       discount |-> couponDiscount + shippingDiscount,
       total |-> subtotal + finalShippingCost + taxAmount]

\* Lines 31-234: what the request decides before it writes anything: the
\* refusal, if any, and the order document it would save.  `used` is the
\* usedCount read from the coupon document.
CreatePlan(u, items, code, shippingCost, method, inv, backorders, ords, used) ==
  LET itemCheck == IF Len(items) = 0 THEN <<400, "NoItems">>
                   ELSE CheckItems(items, 1, inv, backorders)
      found == code \in CouponCodes
      subtotal0 == Subtotal(items)
      couponCheck == IF itemCheck[1] = 0 /\ found
                       THEN CheckCoupon(Coupons[code], used[code],
                                        UserUsageCount(ords, u, code), subtotal0)
                       ELSE <<0, "none">>
      refusal == IF itemCheck[1] # 0 THEN itemCheck ELSE couponCheck
  IN  [status |-> refusal[1],
       error |-> refusal[2],
       coupon |-> IF found THEN code ELSE NoCoupon,
       used |-> IF found THEN used[code] ELSE 0,
       order |-> IF refusal[1] # 0 THEN <<>> ELSE
         <<[gen |-> 1,
            user |-> u,
            items |-> items,
            status |-> "pending",
            payMethod |-> method,
            payStatus |-> IF method = "cod" THEN "pending" ELSE "processing",
            transactionId |-> FALSE,
            shippingCost |-> OrderAmount(subtotal0, code, shippingCost).shipping,
            amount |-> OrderAmount(subtotal0, code, shippingCost),
            discountCode |-> IF found THEN code ELSE NoCoupon,
            returns |-> <<>>]>>]

\* A loop that finds each line's product, calls updateInventory on it and saves
\* it, over the first n lines.
RECURSIVE ApplyItems(_, _, _, _)
ApplyItems(inv, items, n, action) ==
  IF n = 0 THEN inv
  ELSE productUpdateInventory(ApplyItems(inv, items, n - 1, action),
                              items[n].quantity, items[n].sku, action)

\* Lines 333-340: the reservation loop over the first n lines.
ReserveItems(inv, items, n) == ApplyItems(inv, items, n, "reserve")


\* The reserved counters the ledger follows: inventory.reserved of each record
\* and metadata.reserved.
Counters == Recs \cup {"meta"}

NoEntry == [c \in Counters |-> 0]

\* The ledger entry `e` after the first n of `items` were reserved (sign 1) or
\* released or sold (sign -1) on the inventory records.
Booked(e, items, n, sign) ==
  [c \in Counters |->
     IF c \in Recs THEN e[c] + sign * QtyFor(SubSeq(items, 1, n), c) ELSE e[c]]

\* A coupon update that adds one to the count the store holds at the time of
\* the write.
SaveCouponAtomic(used, code, readCount) == [used EXCEPT ![code] = @ + 1]

\* Lines 343-351: coupon.usedCount += 1 on the document the request read, then
\* coupon.save(), which writes the new value of the field.
SaveCoupon(used, code, readCount) == [used EXCEPT ![code] = readCount + 1]

\* The steps of createOrder that can fail, in the order the handler takes them
\* (lines 331, 338, 351, 355, 360, 379), and "none".  The confirmation email
\* (emailService.sendOrderConfirmation, email.js lines 207-233) fails in two
\* ways: "email" is the preparation of its attachment (generateInvoicePdf,
\* awaited while the arguments of sendEmail are built), which rejects the call;
\* "send" is the sending itself, which sendEmail (lines 80-167) catches and
\* answers with {success: false}.
CreateStages ==
  <<"save", "reserve", "coupon", "cart", "payment", "email", "send", "none">>

StageIndex(f) == CHOOSE i \in 1 .. Len(CreateStages) : CreateStages[i] = f

\* TRUE when the handler gets past step `step` given that it throws at `f`.
Passed(step, f) == StageIndex(step) < StageIndex(f)

\* A creation that takes back what it did when a step throws: nothing of the
\* attempt is left in the store.
CreateWritesRollback(plan, u, f, n) ==
  LET doc == plan.order[1]
      code == plan.coupon
      id == Len(orders) + 1
  IN  IF f # "none"
        THEN /\ last' = Response("createOrder", 0, 500, "Failed")
             /\ UNCHANGED <<inventory, orders, usedCount, usageHistory, carts, ledger>>
        ELSE /\ orders' = Append(orders, [doc EXCEPT !.transactionId = doc.payMethod # "cod"])
             /\ inventory' = ReserveItems(inventory, doc.items, Len(doc.items))
             /\ ledger' = Append(ledger, Booked(NoEntry, doc.items, Len(doc.items), 1))
             /\ IF code # NoCoupon
                  THEN /\ usedCount' = SaveCoupon(usedCount, code, plan.used)
                       /\ usageHistory' = [usageHistory EXCEPT ![code] = @ + 1]
                  ELSE UNCHANGED <<usedCount, usageHistory>>
             /\ carts' = [carts EXCEPT ![u] = NoCart]
             /\ last' = Response("createOrder", id, 201, "none")

\* Lines 330-418: what createOrder writes once the plan is made, when the step
\* `f` throws (after n lines were reserved, if it is the reservation).
CreateWrites(plan, u, f, n) ==
  LET doc == plan.order[1]
      code == plan.coupon
      paid == doc.payMethod # "cod" /\ Passed("payment", f)
      reservedLines == IF f = "reserve" THEN n ELSE Len(doc.items)
      id == Len(orders) + 1
  IN  IF ~Passed("save", f)
        THEN /\ last' = Response("createOrder", 0, 500, "Failed")
             /\ UNCHANGED <<inventory, orders, usedCount, usageHistory, carts, ledger>>
        ELSE /\ orders' = Append(orders, [doc EXCEPT !.transactionId = paid])
             /\ inventory' = ReserveItems(inventory, doc.items, reservedLines)
             /\ ledger' = Append(ledger, Booked(NoEntry, doc.items, reservedLines, 1))
             /\ IF code # NoCoupon /\ Passed("coupon", f)
                  THEN /\ usedCount' = SaveCoupon(usedCount, code, plan.used)
                       /\ usageHistory' = [usageHistory EXCEPT ![code] = @ + 1]
                  ELSE UNCHANGED <<usedCount, usageHistory>>
             /\ carts' = IF Passed("cart", f) THEN [carts EXCEPT ![u] = NoCart] ELSE carts
             /\ last' = IF f \in {"none", "send"}
                          THEN Response("createOrder", id, 201, "none")
                          ELSE Response("createOrder", id, 500, "Failed")

\* TRUE when a creation with this plan can throw at step f after n reserved
\* lines: a step that the request does not take cannot throw.
CanFail(plan, f, n) ==
  LET doc == plan.order[1] IN
  /\ f = "reserve" => n \in 0 .. Len(doc.items) - 1
  /\ f # "reserve" => n = 0
  /\ f = "coupon" => plan.coupon # NoCoupon
  /\ f = "payment" => doc.payMethod # "cod"

\* OrderController.createOrder (lines 15-419), the whole handler run with no
\* other request in between; it throws at step f (or at none).
CreateOrder(u, items, code, shippingCost, method, f, n) ==
  LET plan == CreatePlan(u, items, code, shippingCost, method,
                         inventory, allowBackorders, orders, usedCount)
  IN  /\ reqs = {}
      /\ IF plan.status # 0
           THEN /\ f = "none" /\ n = 0
                /\ last' = Response("createOrder", 0, plan.status, plan.error)
                /\ UNCHANGED <<inventory, orders, usedCount, usageHistory, carts, ledger>>
           ELSE /\ Len(orders) < MaxOrders
                /\ CanFail(plan, f, n)
                /\ CreateWrites(plan, u, f, n)
      /\ UNCHANGED <<allowBackorders, addresses, sale, totals, wishlists, reviews, ratings, refunds, metadata, variantStock, reqs, loyaltyPoints, webhooks>>

\* The slots of the requests in flight.
Slots == 1 .. MaxInFlight

FreeSlot == CHOOSE i \in Slots : \A r \in reqs : r.slot # i

\* createOrder up to its last read (lines 15-329): the request has read the
\* products, the coupon and the user's earlier orders, and has either answered
\* with a refusal or holds the order it is about to save.
CreateOrderBegin(u, items, code, shippingCost, method) ==
  LET plan == CreatePlan(u, items, code, shippingCost, method,
                         inventory, allowBackorders, orders, usedCount)
  IN  /\ IF plan.status # 0
           THEN /\ last' = Response("createOrder", 0, plan.status, plan.error)
                /\ UNCHANGED reqs
           ELSE /\ Cardinality(reqs) < MaxInFlight
                /\ Len(orders) + Cardinality(reqs) < MaxOrders
                /\ reqs' = reqs \cup {[slot |-> FreeSlot, op |-> "createOrder",
                                       user |-> u, plan |-> plan]}
                /\ UNCHANGED last
      /\ UNCHANGED <<inventory, allowBackorders, addresses, sale, totals, wishlists, reviews, ratings, refunds, metadata, variantStock, orders,
                     usedCount, usageHistory, carts, loyaltyPoints, webhooks, ledger>>

\* createOrder from the save of the order on (lines 330-418), for a request
\* that has done its reads; other requests may have run since.
CreateOrderCommit(r, f, n) ==
  /\ r \in reqs
  /\ r.op = "createOrder"
  /\ Len(orders) < MaxOrders
  /\ CanFail(r.plan, f, n)
  /\ CreateWrites(r.plan, r.user, f, n)
  /\ reqs' = reqs \ {r}
  /\ UNCHANGED <<allowBackorders, addresses, sale, totals, wishlists, reviews, ratings, refunds, metadata, variantStock, loyaltyPoints, webhooks>>

\* ------------------------------------------ OrderController.updateOrderStatus

Statuses == {"pending", "confirmed", "processing", "ready_for_shipment", "shipped",
             "out_for_delivery", "delivered", "cancelled", "refunded"}

\* Lines 594-604.
validTransitions ==
  [pending |-> {"confirmed", "cancelled"},
   confirmed |-> {"processing", "cancelled"},
   processing |-> {"ready_for_shipment", "cancelled"},
   ready_for_shipment |-> {"shipped"},
   shipped |-> {"out_for_delivery", "delivered"},
   out_for_delivery |-> {"delivered"},
   delivered |-> {"refunded"},
   cancelled |-> {},
   refunded |-> {}]

\* A transition check that also lets a shipped order go back to processing.
IsValidTransitionBack(from, to) ==
  to \in validTransitions[from] \/ (from = "shipped" /\ to = "processing")

\* Line 606: validTransitions[order.status]?.includes(status)
IsValidTransition(from, to) == to \in validTransitions[from]

\* The lines of an order as this controller reads them: it takes the sku from
\* item.variantSku, which the orders of the second controller do not have.
ItemsRead(order) ==
  [i \in 1 .. Len(order.items) |->
     [order.items[i] EXCEPT !.sku = IF order.gen = 1 THEN @ ELSE NoSku]]

\* Math.floor(order.payment.amount.total): one point per dollar.
PointsFor(order) == order.amount.total \div 100

\* The steps after the checks that can throw: the loop over the lines (after n
\* of them) and the save of the order.  The email after the save goes through
\* emailService.sendEmail, which catches what the sending throws.
HandlerFailures == {"none", "loop", "save"}

\* Lines 613-711: a valid transition of order o to `status`.
StatusWrites(o, status, f, n) ==
  LET order == orders[o]
      items == ItemsRead(order)
      done == IF f = "loop" THEN n ELSE Len(items)
      saved == f = "none"
      refunded == status = "cancelled" /\ order.payStatus = "captured" /\ f # "loop"
  IN  /\ f \in HandlerFailures
      /\ f = "loop" => status \in {"cancelled", "delivered"} /\ n \in 0 .. Len(items) - 1
      /\ f # "loop" => n = 0
      /\ CASE status = "cancelled" ->
                /\ inventory' = ApplyItems(inventory, items, done, "release")
                /\ ledger' = [ledger EXCEPT ![o] = Booked(@, items, done, -1)]
                /\ UNCHANGED loyaltyPoints
           [] status = "delivered" ->
                /\ inventory' = ApplyItems(inventory, items, done, "sell")
                /\ ledger' = [ledger EXCEPT ![o] = Booked(@, items, done, -1)]
                /\ loyaltyPoints' =
                     IF f = "loop" THEN loyaltyPoints
                     ELSE [loyaltyPoints EXCEPT ![order.user] = @ + PointsFor(order)]
           [] OTHER -> UNCHANGED <<inventory, ledger, loyaltyPoints>>
      /\ orders' = IF saved
                     THEN [orders EXCEPT ![o] =
                             [order EXCEPT !.status = status,
                                           !.payStatus = IF refunded THEN "refunded" ELSE @]]
                     ELSE orders
      /\ refunds' = IF refunded THEN refunds \cup {o} ELSE refunds
      /\ last' = IF f = "none"
                   THEN Response("updateOrderStatus", o, 200, "none")
                   ELSE Response("updateOrderStatus", o, 500, "Failed")

Roles == {"admin", "customer"}

\* OrderController.updateOrderStatus (lines 569-725).
UpdateOrderStatus(role, o, status, f, n) ==
  /\ reqs = {}
  /\ IF role # "admin"
       THEN /\ f = "none" /\ n = 0
            /\ last' = Response("updateOrderStatus", o, 403, "PermissionDenied")
            /\ UNCHANGED <<inventory, orders, ledger, loyaltyPoints, refunds>>
     ELSE IF o > Len(orders)
       THEN /\ f = "none" /\ n = 0
            /\ last' = Response("updateOrderStatus", o, 404, "NotFound")
            /\ UNCHANGED <<inventory, orders, ledger, loyaltyPoints, refunds>>
     ELSE IF ~IsValidTransition(orders[o].status, status)
       THEN /\ f = "none" /\ n = 0
            /\ last' = Response("updateOrderStatus", o, 400, "InvalidTransition")
            /\ UNCHANGED <<inventory, orders, ledger, loyaltyPoints, refunds>>
     ELSE StatusWrites(o, status, f, n)
  /\ UNCHANGED <<allowBackorders, addresses, sale, totals, wishlists, reviews, ratings, metadata, variantStock, usedCount, usageHistory,
                 carts, reqs, webhooks>>

\* ------------------------------------------------ OrderController.cancelOrder

\* order.canCancel, the Order model's virtual: cancellation is permitted while
\* the order is pending, confirmed or processing.
canCancel(order) == order.status \in {"pending", "confirmed", "processing"}

\* Lines 751-806: the cancellation of order o once the checks have passed.
CancelWrites(o, f, n) ==
  LET order == orders[o]
      items == ItemsRead(order)
      done == IF f = "loop" THEN n ELSE Len(items)
      saved == f = "none"
      refunded == order.payStatus = "captured" /\ f # "loop"
  IN  /\ f \in HandlerFailures
      /\ f = "loop" => n \in 0 .. Len(items) - 1
      /\ f # "loop" => n = 0
      /\ inventory' = ApplyItems(inventory, items, done, "release")
      /\ ledger' = [ledger EXCEPT ![o] = Booked(@, items, done, -1)]
      /\ orders' = IF saved
                     THEN [orders EXCEPT ![o] =
                             [order EXCEPT !.status = "cancelled",
                                           !.payStatus = IF refunded THEN "refunded" ELSE @]]
                     ELSE orders
      /\ refunds' = IF refunded THEN refunds \cup {o} ELSE refunds
      /\ last' = IF f = "none"
                   THEN Response("cancelOrder", o, 200, "none")
                   ELSE Response("cancelOrder", o, 500, "Failed")

\* OrderController.cancelOrder (lines 728-820), the whole handler run with no
\* other request in between.
CancelOrder(u, o, f, n) ==
  /\ reqs = {}
  /\ IF o > Len(orders) \/ (o <= Len(orders) /\ orders[o].user # u)
       THEN /\ f = "none" /\ n = 0
            /\ last' = Response("cancelOrder", o, 404, "NotFound")
            /\ UNCHANGED <<inventory, orders, ledger, refunds>>
     ELSE IF ~canCancel(orders[o])
       THEN /\ f = "none" /\ n = 0
            /\ last' = Response("cancelOrder", o, 400, "CannotCancel")
            /\ UNCHANGED <<inventory, orders, ledger, refunds>>
     ELSE CancelWrites(o, f, n)
  /\ UNCHANGED <<allowBackorders, addresses, sale, totals, wishlists, reviews, ratings, metadata, variantStock, usedCount, usageHistory,
                 carts, reqs, loyaltyPoints, webhooks>>

\* cancelOrder up to its check (lines 728-749): the request has read the order
\* and has either answered with a refusal or goes on to cancel it.
CancelOrderBegin(u, o) ==
  /\ IF o > Len(orders) \/ (o <= Len(orders) /\ orders[o].user # u)
       THEN /\ last' = Response("cancelOrder", o, 404, "NotFound")
            /\ UNCHANGED reqs
     ELSE IF ~canCancel(orders[o])
       THEN /\ last' = Response("cancelOrder", o, 400, "CannotCancel")
            /\ UNCHANGED reqs
     ELSE /\ Cardinality(reqs) < MaxInFlight
          /\ reqs' = reqs \cup {[slot |-> FreeSlot, op |-> "cancelOrder",
                                 user |-> u, order |-> o]}
          /\ UNCHANGED last
  /\ UNCHANGED <<inventory, allowBackorders, addresses, sale, totals, wishlists, reviews, ratings, refunds, metadata, variantStock, orders,
                 usedCount, usageHistory, carts, loyaltyPoints, webhooks, ledger>>

\* cancelOrder from the release loop on (lines 751-806), for a request that
\* has passed the check; other requests may have run since.
CancelOrderCommit(r, f, n) ==
  /\ r \in reqs
  /\ r.op = "cancelOrder"
  /\ CancelWrites(r.order, f, n)
  /\ reqs' = reqs \ {r}
  /\ UNCHANGED <<allowBackorders, addresses, sale, totals, wishlists, reviews, ratings, metadata, variantStock, usedCount, usageHistory,
                 carts, loyaltyPoints, webhooks>>

\* ------------------------------------ OrderController (second definition)

\* Lines 1241-1269: the first line that is refused.  product.totalStock is not
\* a path or virtual of the Product schema, so `product.totalStock <
\* item.quantity` compares undefined with a number and is false: a line without
\* a variant is never refused for stock.
RECURSIVE CheckItems2(_, _, _)
CheckItems2(items, i, vstock) ==
  IF i > Len(items) THEN <<0, "none">>
  ELSE LET item == items[i] IN
       IF item.product # ProductId THEN <<404, "ProductNotFound">>
       ELSE IF item.sku # NoSku /\ item.sku # VariantSku THEN <<400, "VariantNotFound">>
       ELSE IF item.sku = VariantSku /\ vstock < item.quantity
         THEN <<400, "InsufficientStock">>
       ELSE CheckItems2(items, i + 1, vstock)

\* Lines 1525-1547: calculateShipping for a US address and the standard method,
\* in cents.
calculateShipping(itemCount) == 599 + (itemCount - 1) * 150

\* Lines 1549-1563: calculateTax for a US address.
calculateTax(subtotal) == (subtotal * 8) \div 100

\* Lines 1565-1592: applyCoupon, over the three coupons the method lists.
applyCoupon(code, subtotal) ==
  CASE code = "WELCOME10" -> (subtotal * 10) \div 100
    [] code = "SAVE20" -> IF subtotal < 10000 THEN 0 ELSE Min(2000, subtotal)
    [] OTHER -> 0

TotalItems(items) ==
  SumOver([i \in 1 .. Len(items) |-> items[i].quantity], 1, Len(items))

\* orderSchema.pre('save') (part_003 lines 386-400): totals are rebuilt from the
\* lines and payment.amount is set to them.  The lines this controller writes
\* hold subtotal but neither tax nor discount.
OrderPreSave(doc) ==
  LET itemsTotal == Subtotal2(doc.items)
      shipping == doc.shippingCost
      tax == 0
      discount == 0
  IN  [doc EXCEPT !.amount = [subtotal |-> itemsTotal,
                              shipping |-> shipping,
                              tax |-> tax,
                              discount |-> discount,
                              total |-> itemsTotal + shipping + tax - discount]]

\* Saving an order document through the Order model of part_003: the hook runs
\* on the documents that have the fields it reads.
SaveOrder(doc) == IF doc.gen = 2 THEN OrderPreSave(doc) ELSE doc

\* Lines 1236-1358: the refusal, if any, and the document `new Order` builds.
CreatePlan2(u, items, code, method, vstock) ==
  LET refusal == CheckItems2(items, 1, vstock)
      subtotal == Subtotal2(items)
      shippingCost == calculateShipping(TotalItems(items))
      tax == calculateTax(subtotal)
      discount == applyCoupon(code, subtotal)
      grandTotal == subtotal + shippingCost + tax - discount
  IN  [status |-> refusal[1],
       error |-> refusal[2],
       grandTotal |-> IF refusal[1] # 0 THEN 0 ELSE grandTotal,
       order |-> IF refusal[1] # 0 THEN <<>> ELSE
         <<[gen |-> 2,
            user |-> u,
            items |-> items,
            status |-> "pending",
            payMethod |-> method,
            payStatus |-> "pending",
            transactionId |-> FALSE,
            shippingCost |-> shippingCost,
            amount |-> [subtotal |-> subtotal, shipping |-> shippingCost, tax |-> tax,
                        discount |-> discount, total |-> grandTotal],
            discountCode |-> NoCoupon,
            returns |-> <<>>]>>]

\* The lines of an order as this controller reads them: it takes the sku from
\* item.variant.sku, which the orders of the first controller do not have.
ItemsRead2(order) ==
  [i \in 1 .. Len(order.items) |->
     [order.items[i] EXCEPT !.sku = IF order.gen = 2 THEN @ ELSE NoSku]]

\* Lines 1594-1618 (sign 1) and 1620-1644 (sign -1): reserveStock and
\* restockItems over the first n lines, on <<metadata, variantStock>>.
RECURSIVE MoveStock(_, _, _, _)
MoveStock(st, items, n, sign) ==
  IF n = 0 THEN st
  ELSE LET prev == MoveStock(st, items, n - 1, sign)
           q == items[n].quantity
       IN  IF items[n].sku # NoSku
             THEN <<prev[1], prev[2] - sign * q>>
             ELSE <<[stock |-> prev[1].stock - sign * q,
                     reserved |-> prev[1].reserved + sign * q], prev[2]>>

reserveStock(st, items, n) == MoveStock(st, items, n, 1)

restockItems(st, items, n) == MoveStock(st, items, n, -1)

\* The ledger entry `e` after reserveStock (sign 1) or restockItems (sign -1)
\* ran over the first n of `items`: the lines without a variant move
\* metadata.reserved.
Booked2(e, items, n, sign) ==
  [e EXCEPT !["meta"] = @ + sign * QtyFor(SubSeq(items, 1, n), "base")]

Failures2 == {"none", "reserve", "save", "cart"}

\* OrderController.createOrder, second definition (lines 1223-1382).
CreateOrder2(u, items, code, method, f, n) ==
  LET plan == CreatePlan2(u, items, code, method, variantStock)
      doc == plan.order[1]
      done == IF f = "reserve" THEN n ELSE Len(items)
      st == reserveStock(<<metadata, variantStock>>, items, done)
      persisted == f \in {"none", "cart"}
  IN  /\ reqs = {}
      /\ f \in Failures2
      /\ IF plan.status # 0
           THEN /\ f = "none" /\ n = 0
                /\ last' = Response("createOrder2", 0, plan.status, plan.error)
                /\ UNCHANGED <<metadata, variantStock, orders, carts, ledger>>
           ELSE /\ Len(orders) < MaxOrders
                /\ f = "reserve" => n \in 0 .. Len(items) - 1
                /\ f # "reserve" => n = 0
                /\ metadata' = st[1]
                /\ variantStock' = st[2]
                /\ IF persisted
                     THEN /\ orders' = Append(orders, SaveOrder(doc))
                          /\ ledger' = Append(ledger, Booked2(NoEntry, items, done, 1))
                     ELSE UNCHANGED <<orders, ledger>>
                /\ carts' = IF f = "none" THEN [carts EXCEPT ![u] = NoCart] ELSE carts
                /\ last' = IF f = "none"
                             THEN Response("createOrder2", Len(orders) + 1, 201, "none")
                             ELSE Response("createOrder2", 0, 500, "Failed")
      /\ UNCHANGED <<inventory, allowBackorders, addresses, sale, totals, wishlists, reviews, ratings, refunds, usedCount, usageHistory, reqs,
                     loyaltyPoints, webhooks>>

\* OrderController.cancelOrder, second definition (lines 1443-1485).
CancelOrder2(u, o, f, n) ==
  /\ reqs = {}
  /\ IF o > Len(orders) \/ (o <= Len(orders) /\ orders[o].user # u)
       THEN /\ f = "none" /\ n = 0
            /\ last' = Response("cancelOrder2", o, 404, "NotFound")
            /\ UNCHANGED <<metadata, variantStock, orders, ledger>>
     ELSE IF orders[o].status \notin {"pending", "confirmed"}
       THEN /\ f = "none" /\ n = 0
            /\ last' = Response("cancelOrder2", o, 400, "CannotCancel")
            /\ UNCHANGED <<metadata, variantStock, orders, ledger>>
     ELSE LET order == orders[o]
              items == ItemsRead2(order)
              done == IF f = "restock" THEN n ELSE Len(items)
              st == restockItems(<<metadata, variantStock>>, items, done)
          IN  /\ f \in {"none", "save", "restock"}
              /\ f = "restock" => n \in 0 .. Len(items) - 1
              /\ f # "restock" => n = 0
              /\ IF f = "save"
                   THEN /\ UNCHANGED <<metadata, variantStock, orders, ledger>>
                        /\ last' = Response("cancelOrder2", o, 500, "Failed")
                   ELSE /\ orders' = [orders EXCEPT ![o] =
                                        SaveOrder([order EXCEPT !.status = "cancelled",
                                                                !.payStatus = "cancelled"])]
                        /\ metadata' = st[1]
                        /\ variantStock' = st[2]
                        /\ ledger' = [ledger EXCEPT ![o] = Booked2(@, items, done, -1)]
                        /\ last' = IF f = "none"
                                     THEN Response("cancelOrder2", o, 200, "none")
                                     ELSE Response("cancelOrder2", o, 500, "Failed")
  /\ UNCHANGED <<inventory, allowBackorders, addresses, sale, totals, wishlists, reviews, ratings, refunds, usedCount, usageHistory, carts, reqs,
                 loyaltyPoints, webhooks>>


\* --------------------------------------------------------- PaymentController

\* PaymentController.createPaymentIntent (lines 1323-1396).  The amount is read
\* from order.totals.grandTotal; a document without totals makes that read
\* throw, which the handler answers with 500.
CreatePaymentIntent(u, o, f) ==
  /\ reqs = {}
  /\ f \in {"none", "stripe", "save"}
  /\ IF o > Len(orders) \/ (o <= Len(orders) /\ orders[o].user # u)
       THEN /\ f = "none"
            /\ last' = Response("createPaymentIntent", o, 404, "NotFound")
            /\ UNCHANGED orders
     ELSE IF orders[o].payStatus = "completed"
       THEN /\ f = "none"
            /\ last' = Response("createPaymentIntent", o, 400, "AlreadyPaid")
            /\ UNCHANGED orders
     ELSE IF orders[o].gen # 2 \/ f # "none"
       THEN /\ orders[o].gen # 2 => f = "none"
            /\ last' = Response("createPaymentIntent", o, 500, "Failed")
            /\ UNCHANGED orders
     ELSE /\ orders' = [orders EXCEPT ![o] = SaveOrder([@ EXCEPT !.transactionId = TRUE])]
          /\ last' = Response("createPaymentIntent", o, 200, "none")
  /\ UNCHANGED <<inventory, allowBackorders, addresses, sale, totals, wishlists, reviews, ratings, refunds, metadata, variantStock, usedCount,
                 usageHistory, carts, reqs, loyaltyPoints, webhooks, ledger>>

\* What handlePaymentSuccess writes on the order it found (lines 1439-1441).
PaidOrder(order) == [order EXCEPT !.payStatus = "completed", !.status = "confirmed"]

\* PaymentController.handlePaymentSuccess (lines 1432-1456) for the payment
\* intent of order o.  After the save the handler calls
\* this.sendOrderConfirmation, which the class does not define: the call
\* throws, the catch logs it, and the stock update and the loyalty points that
\* follow are not reached.
HandlePaymentSuccess(o, f) ==
  /\ reqs = {}
  /\ webhooks < MaxWebhooks
  /\ webhooks' = webhooks + 1
  /\ f \in {"none", "save"}
  /\ IF o <= Len(orders) /\ orders[o].transactionId /\ f = "none"
       THEN orders' = [orders EXCEPT ![o] = SaveOrder(PaidOrder(@))]
       ELSE UNCHANGED orders
  /\ last' = Response("handlePaymentSuccess", o, 200, "none")
  /\ UNCHANGED <<inventory, allowBackorders, addresses, sale, totals, wishlists, reviews, ratings, refunds, metadata, variantStock, usedCount,
                 usageHistory, carts, reqs, loyaltyPoints, ledger>>

\* PaymentController.handlePaymentFailure (lines 1458-1474).
HandlePaymentFailure(o, f) ==
  /\ reqs = {}
  /\ webhooks < MaxWebhooks
  /\ webhooks' = webhooks + 1
  /\ f \in {"none", "save"}
  /\ IF o <= Len(orders) /\ orders[o].transactionId /\ f = "none"
       THEN orders' = [orders EXCEPT ![o] = SaveOrder([@ EXCEPT !.payStatus = "failed"])]
       ELSE UNCHANGED orders
  /\ last' = Response("handlePaymentFailure", o, 200, "none")
  /\ UNCHANGED <<inventory, allowBackorders, addresses, sale, totals, wishlists, reviews, ratings, refunds, metadata, variantStock, usedCount,
                 usageHistory, carts, reqs, loyaltyPoints, ledger>>

\* The event types the gateway sends, and one the handler does not know.
EventTypes == {"payment_intent.succeeded", "payment_intent.payment_failed",
               "charge.refunded", "customer.created"}

\* PaymentController.handleStripeWebhook (lines 1399-1430) for an event of the
\* given type about the payment of order o; `verified` tells whether
\* constructEvent accepts the signature.  For charge.refunded the handler
\* calls this.handleRefund, which the class does not define: the call throws
\* outside any try block, res.json is not reached, and the client gets either
\* no answer (code 0) or the framework's error answer (code 500).
HandleStripeWebhook(verified, type, o, f) ==
  IF ~verified
    THEN /\ reqs = {}
         /\ f = "none"
         /\ last' = Response("handleStripeWebhook", o, 400, "WebhookError")
         /\ UNCHANGED <<inventory, allowBackorders, addresses, sale, totals, wishlists, reviews, ratings, refunds,
                        metadata, variantStock, orders, usedCount, usageHistory, carts,
                        reqs, loyaltyPoints, webhooks, ledger>>
  ELSE CASE type = "payment_intent.succeeded" -> HandlePaymentSuccess(o, f)
         [] type = "payment_intent.payment_failed" -> HandlePaymentFailure(o, f)
         [] OTHER ->
              /\ reqs = {}
              /\ f = "none"
              /\ webhooks < MaxWebhooks
              /\ webhooks' = webhooks + 1
              /\ IF type = "charge.refunded"
                   THEN \E code \in {0, 500} :
                          last' = Response("handleStripeWebhook", o, code, "Failed")
                   ELSE last' = Response("handleStripeWebhook", o, 200, "none")
              /\ UNCHANGED <<inventory, allowBackorders, addresses, sale, totals, wishlists, reviews, ratings,
                             refunds, metadata, variantStock, orders, usedCount,
                             usageHistory, carts, reqs, loyaltyPoints, ledger>>

\* What processRefund writes on the order (lines 1527-1528).
RefundedOrder(order) == [order EXCEPT !.payStatus = "refunded", !.status = "refunded"]

\* PaymentController.processRefund (lines 1505-1554); `amount` tells whether
\* the request names an amount.  Without one the amount is read from
\* order.totals.grandTotal, which throws on a document without totals.
ProcessRefund(o, amount, f) ==
  /\ reqs = {}
  /\ f \in {"none", "stripe", "save"}
  /\ IF o > Len(orders)
       THEN /\ f = "none"
            /\ last' = Response("processRefund", o, 404, "NotFound")
            /\ UNCHANGED <<orders, refunds>>
     ELSE IF orders[o].payStatus # "completed"
       THEN /\ f = "none"
            /\ last' = Response("processRefund", o, 400, "PaymentNotCompleted")
            /\ UNCHANGED <<orders, refunds>>
     ELSE IF (~amount /\ orders[o].gen # 2) \/ f # "none"
       THEN /\ (~amount /\ orders[o].gen # 2) => f = "none"
            /\ last' = Response("processRefund", o, 500, "Failed")
            /\ refunds' = IF f = "save" THEN refunds \cup {o} ELSE refunds
            /\ UNCHANGED orders
     ELSE /\ orders' = [orders EXCEPT ![o] = SaveOrder(RefundedOrder(@))]
          /\ refunds' = refunds \cup {o}
          /\ last' = Response("processRefund", o, 200, "none")
  /\ UNCHANGED <<inventory, allowBackorders, addresses, sale, totals, wishlists, reviews, ratings, metadata, variantStock, usedCount,
                 usageHistory, carts, reqs, loyaltyPoints, webhooks, ledger>>


\* ------------------------------------------- ProductController.updateInventory

\* The actions of updateInventory that the inventory rules define.
InventoryActions == {"reserve", "sell", "release"}

\* ProductController.updateInventory (product.controller.js lines 659-737): the
\* endpoint by which the product's owner or an admin moves a counter.  The
\* quantity must be positive; nothing else is checked before the model method
\* is called.
UpdateInventory(role, q, sku, action) ==
  /\ reqs = {}
  /\ IF q <= 0
       THEN /\ last' = Response("updateInventory", 0, 400, "InvalidQuantity")
            /\ UNCHANGED inventory
     ELSE IF role # "admin"
       THEN /\ last' = Response("updateInventory", 0, 403, "PermissionDenied")
            /\ UNCHANGED inventory
     ELSE /\ inventory' = productUpdateInventory(inventory, q, sku, action)
          /\ last' = Response("updateInventory", 0, 200, "none")
  /\ UNCHANGED <<allowBackorders, addresses, sale, totals, wishlists, reviews, ratings, refunds, metadata, variantStock, orders, usedCount,
                 usageHistory, carts, reqs, loyaltyPoints, webhooks, ledger>>

\* ------------------------------------------------------------- CartController

\* Largest total quantity a stored cart holds in the cart specifications.
MaxCartQty == 3

\* validateCoupon (part_001 lines 893-909): the coupons the cart knows, in
\* cents.
CartCoupons ==
  [WELCOME10 |-> [discountType |-> "percentage", value |-> 10, minPurchase |-> 0],
   SAVE20    |-> [discountType |-> "fixed", value |-> 2000, minPurchase |-> 10000],
   FREESHIP  |-> [discountType |-> "shipping", value |-> 100, minPurchase |-> 0]]

CartCouponCodes == DOMAIN CartCoupons

\* calculateDiscount (part_001 lines 911-926).
calculateDiscount(coupon, subtotal) ==
  IF subtotal < coupon.minPurchase THEN 0
  ELSE CASE coupon.discountType = "percentage" -> (subtotal * coupon.value) \div 100
         [] coupon.discountType = "fixed" -> Min(coupon.value, subtotal)
         [] OTHER -> 0

\* calculateItemPrice (part_001 lines 800-821).
calculateItemPrice(sku) == SalePrice(PriceBase[RecOf(sku)], sale)

\* The subtotal of calculateCartTotals (part_001 lines 823-827) over lines that
\* all carry a price.
CartSubtotal(items) ==
  SumOver([i \in 1 .. Len(items) |-> items[i].price * items[i].quantity], 1, Len(items))

\* A stored line without a price: calculateCartTotals then asks
\* calculateItemPrice for the price of item.product, which is an id in a stored
\* cart, and the read of its price throws.
HasUnpricedLine(items) == \E i \in 1 .. Len(items) : items[i].price = 0

\* The flat shipping fee of a cart and the subtotal from which shipping is free
\* (part_001 line 834), in cents.
FlatShipping == 599

FreeShippingFrom == 5000

\* toFixed(2) of the tax: 8% of the subtotal, rounded to the cent.
CartTax(subtotal) == (subtotal * 8 + 50) \div 100

\* calculateCartTotals (part_001 lines 823-848) over the lines of a populated
\* cart: a line without a price is priced from its product, whose variant the
\* line does not name.
calculateCartTotals(items, discount) ==
  LET price(i) == IF items[i].price # 0 THEN items[i].price
                  ELSE SalePrice(PriceBase["base"], sale)
      subtotal == SumOver([i \in 1 .. Len(items) |-> price(i) * items[i].quantity],
                          1, Len(items))
      tax == CartTax(subtotal)
      shipping == IF subtotal >= FreeShippingFrom THEN 0 ELSE FlatShipping
  IN  [subtotal |-> subtotal, tax |-> tax, shipping |-> shipping,
       discount |-> discount, total |-> subtotal + tax + shipping - discount]

CartQuantity(items) == QtyFor(items, "base") + QtyFor(items, VariantSku)

\* The position of the line of `sku` in the cart, 0 when there is none
\* (findIndex on product and variantSku).
LineIndex(items, sku) ==
  IF \E i \in 1 .. Len(items) : items[i].sku = sku
    THEN CHOOSE i \in 1 .. Len(items) :
           items[i].sku = sku /\ \A j \in 1 .. i - 1 : items[j].sku # sku
    ELSE 0

\* items.splice(i, 1)
Splice(items, i) ==
  [j \in 1 .. Len(items) - 1 |-> IF j < i THEN items[j] ELSE items[j + 1]]

\* The cart after one line was taken out: the document is deleted when no line
\* is left, saved otherwise (part_001 lines 329-337 and 611-616).
WithoutLine(cart, i) ==
  IF Len(cart.items) = 1 THEN NoCart ELSE [cart EXCEPT !.items = Splice(@, i)]

\* The cart with quantity q more of sku: the line of the sku grows, or a new
\* line is pushed with the given price.
WithLine(cart, sku, q, price) ==
  LET k == LineIndex(cart.items, sku)
  IN  [cart EXCEPT !.exists = TRUE,
                   !.items = IF k > 0
                               THEN [@ EXCEPT ![k].quantity = @ + q]
                               ELSE Append(@, CartLine(sku, q, price))]

\* Everything but the carts and the response.
CartFrame ==
  UNCHANGED <<inventory, allowBackorders, addresses, sale, totals, metadata, variantStock, orders, usedCount,
              usageHistory, reqs, loyaltyPoints, webhooks, refunds, reviews, ratings, ledger>>

\* CartController.addToCart (part_001 lines 62-190).
AddToCart(u, p, sku, q) ==
  /\ reqs = {}
  /\ IF q <= 0
       THEN /\ last' = Response("addToCart", 0, 400, "InvalidQuantity")
            /\ UNCHANGED carts
     ELSE IF p # ProductId
       THEN /\ last' = Response("addToCart", 0, 404, "ProductNotFound")
            /\ UNCHANGED carts
     ELSE IF sku \notin {NoSku, VariantSku}
       THEN /\ last' = Response("addToCart", 0, 400, "VariantNotFound")
            /\ UNCHANGED carts
     ELSE IF inventory[RecOf(sku)].quantity - inventory[RecOf(sku)].reserved < q
             /\ ~allowBackorders
       THEN /\ last' = Response("addToCart", 0, 400, "InsufficientStock")
            /\ UNCHANGED carts
     ELSE /\ carts' = [carts EXCEPT ![u] = WithLine(@, sku, q, calculateItemPrice(sku))]
          /\ last' = Response("addToCart", 0, 200, "none")
  /\ CartFrame
  /\ UNCHANGED wishlists

\* CartController.updateCartItem (part_001 lines 193-301); the item is named by
\* its position i.
UpdateCartItem(u, i, q) ==
  /\ reqs = {}
  /\ IF q <= 0
       THEN /\ last' = Response("updateCartItem", 0, 400, "InvalidQuantity")
            /\ UNCHANGED carts
     ELSE IF ~carts[u].exists
       THEN /\ last' = Response("updateCartItem", 0, 404, "CartNotFound")
            /\ UNCHANGED carts
     ELSE IF i \notin 1 .. Len(carts[u].items)
       THEN /\ last' = Response("updateCartItem", 0, 404, "ItemNotFound")
            /\ UNCHANGED carts
     ELSE LET rec == inventory[RecOf(carts[u].items[i].sku)] IN
          IF rec.quantity - rec.reserved < q /\ ~allowBackorders
            THEN /\ last' = Response("updateCartItem", 0, 400, "InsufficientStock")
                 /\ UNCHANGED carts
            ELSE /\ carts' = [carts EXCEPT ![u].items[i].quantity = q]
                 /\ last' = Response("updateCartItem", 0, 200, "none")
  /\ CartFrame
  /\ UNCHANGED wishlists

\* CartController.removeFromCart (part_001 lines 304-384).
RemoveFromCart(u, i) ==
  /\ reqs = {}
  /\ IF ~carts[u].exists
       THEN /\ last' = Response("removeFromCart", 0, 404, "CartNotFound")
            /\ UNCHANGED carts
     ELSE IF i \notin 1 .. Len(carts[u].items)
       THEN /\ last' = Response("removeFromCart", 0, 404, "ItemNotFound")
            /\ UNCHANGED carts
     ELSE /\ carts' = [carts EXCEPT ![u] = WithoutLine(@, i)]
          /\ last' = Response("removeFromCart", 0, 200, "none")
  /\ CartFrame
  /\ UNCHANGED wishlists

\* CartController.clearCart (part_001 lines 387-429).
ClearCart(u) ==
  /\ reqs = {}
  /\ carts' = [carts EXCEPT ![u] = NoCart]
  /\ last' = Response("clearCart", 0, 200, "none")
  /\ CartFrame
  /\ UNCHANGED wishlists

RECURSIVE MergeLines(_, _, _)
\* Lines 503-529: the guest lines {productId, variantSku, quantity} from the
\* i-th on, merged into the cart; a line with quantity 0 is skipped.  No price
\* is recorded on the lines pushed.
MergeLines(cart, guest, i) ==
  IF i > Len(guest) THEN cart
  ELSE IF guest[i].quantity = 0 THEN MergeLines(cart, guest, i + 1)
  ELSE MergeLines(WithLine(cart, guest[i].sku, guest[i].quantity, 0), guest, i + 1)

\* CartController.mergeGuestCart (part_001 lines 482-570) for a request whose
\* guestCart.items is the array `guest`.  The user's cart, found or newly made
\* with no items, is saved after the loop whatever it holds; f = "save" is the
\* save that throws.
MergeGuestCart(u, guest, f) ==
  /\ reqs = {}
  /\ f \in {"none", "save"}
  /\ IF f = "save"
       THEN /\ last' = Response("mergeGuestCart", 0, 500, "Failed")
            /\ UNCHANGED carts
       ELSE /\ carts' = [carts EXCEPT ![u] = [MergeLines(@, guest, 1) EXCEPT !.exists = TRUE]]
            /\ last' = Response("mergeGuestCart", 0, 200, "none")
  /\ CartFrame
  /\ UNCHANGED wishlists

\* CartController.saveForLater (part_001 lines 573-643): the product of the
\* line goes to the user's wishlist, the line leaves the cart.
SaveForLater(u, i) ==
  /\ reqs = {}
  /\ IF ~carts[u].exists
       THEN /\ last' = Response("saveForLater", 0, 404, "CartNotFound")
            /\ UNCHANGED <<carts, wishlists>>
     ELSE IF i \notin 1 .. Len(carts[u].items)
       THEN /\ last' = Response("saveForLater", 0, 404, "ItemNotFound")
            /\ UNCHANGED <<carts, wishlists>>
     ELSE /\ wishlists' = [wishlists EXCEPT ![u] = @ \cup {ProductId}]
          /\ carts' = [carts EXCEPT ![u] = WithoutLine(@, i)]
          /\ last' = Response("saveForLater", 0, 200, "none")
  /\ CartFrame

\* CartController.applyCoupon (part_001 lines 646-731).  The coupon comes from
\* the table of validateCoupon; no coupon document is read or written.
ApplyCartCoupon(u, code) ==
  /\ reqs = {}
  /\ IF ~carts[u].exists \/ Len(carts[u].items) = 0
       THEN /\ last' = Response("applyCoupon", 0, 400, "CartEmpty")
            /\ UNCHANGED <<carts, totals>>
     ELSE IF code \notin CartCouponCodes
       THEN /\ last' = Response("applyCoupon", 0, 400, "InvalidCoupon")
            /\ UNCHANGED <<carts, totals>>
     ELSE IF HasUnpricedLine(carts[u].items)
       THEN /\ last' = Response("applyCoupon", 0, 500, "Failed")
            /\ UNCHANGED <<carts, totals>>
     ELSE LET discount == calculateDiscount(CartCoupons[code],
                                            CartSubtotal(carts[u].items))
          IN  /\ carts' = [carts EXCEPT ![u].coupon = code, ![u].discount = discount]
              /\ totals' = calculateCartTotals(carts[u].items, discount)
              /\ last' = Response("applyCoupon", 0, 200, "none")
  /\ UNCHANGED <<inventory, allowBackorders, addresses, sale, metadata, variantStock, orders,
                 usedCount, usageHistory, reqs, loyaltyPoints, webhooks, refunds,
                 reviews, ratings, ledger, wishlists>>

\* CartController.getCart (part_001 lines 9-60): the totals of the stored cart,
\* computed without its discount.
GetCart(u) ==
  /\ reqs = {}
  /\ totals' = IF carts[u].exists THEN calculateCartTotals(carts[u].items, 0)
               ELSE NoTotals
  /\ last' = Response("getCart", 0, 200, "none")
  /\ UNCHANGED <<inventory, allowBackorders, addresses, sale, metadata, variantStock, orders,
                 usedCount, usageHistory, carts, reqs, loyaltyPoints, webhooks,
                 refunds, reviews, ratings, ledger, wishlists>>

\* ProductController.updateProduct (product.controller.js lines 411-456) with
\* a body that sets price.sale: an admin starts or ends a sale (the customer
\* is not the product's vendor).
UpdateProduct(role, s) ==
  /\ reqs = {}
  /\ IF role # "admin"
       THEN /\ last' = Response("updateProduct", 0, 403, "Forbidden")
            /\ UNCHANGED sale
       ELSE /\ sale' = s
            /\ last' = Response("updateProduct", 0, 200, "none")
  /\ UNCHANGED <<inventory, allowBackorders, addresses, totals, metadata, variantStock, orders,
                 usedCount, usageHistory, carts, reqs, loyaltyPoints, webhooks,
                 refunds, reviews, ratings, ledger, wishlists>>

\* CartController.removeCoupon (part_001 lines 734-797).
RemoveCartCoupon(u) ==
  /\ reqs = {}
  /\ IF ~carts[u].exists
       THEN /\ last' = Response("removeCoupon", 0, 404, "CartNotFound")
            /\ UNCHANGED carts
     ELSE IF carts[u].coupon = NoCoupon
       THEN /\ last' = Response("removeCoupon", 0, 400, "NoCouponApplied")
            /\ UNCHANGED carts
     ELSE /\ carts' = [carts EXCEPT ![u].coupon = NoCoupon, ![u].discount = 0]
          /\ last' = Response("removeCoupon", 0, 200, "none")
  /\ CartFrame
  /\ UNCHANGED wishlists

\* ----------------------------------------------------------- ReviewController

\* The ratings the requests of the review specification carry; 0 is not a
\* rating.
RatingValues == {0, 1, 4, 5}

\* Line 525: the number of reports that flags a review.
FlagThreshold == 3

\* The approved reviews among revs, as the set of their authors.
Approved(revs) == {u \in Reviewers : revs[u].exists /\ revs[u].status = "approved"}

RECURSIVE SumRatings(_, _)
\* reviews.reduce((sum, review) => sum + review.rating, 0)
SumRatings(revs, us) ==
  IF us = {} THEN 0
  ELSE LET u == CHOOSE x \in us : TRUE
       IN  revs[u].rating + SumRatings(revs, us \ {u})

\* parseFloat((total / n).toFixed(1)), in tenths: the nearest tenth, the larger
\* one when two are as near.
ToFixed1(total, n) == (20 * total + n) \div (2 * n)

\* ReviewController.updateProductRating (lines 1051-1090): product.ratings
\* after the call, given the reviews in the store.  With no approved review
\* the method returns before it writes.
updateProductRating(revs, old) ==
  LET approved == Approved(revs)
      n == Cardinality(approved)
  IN  IF n = 0 THEN old
      ELSE [average |-> ToFixed1(SumRatings(revs, approved), n),
            count |-> n,
            distribution |->
              [r \in 1 .. 5 |-> Cardinality({u \in approved : revs[u].rating = r})]]

\* Everything but the reviews, the ratings and the response.
ReviewFrame ==
  UNCHANGED <<inventory, allowBackorders, addresses, sale, totals, metadata, variantStock, orders, usedCount,
              usageHistory, carts, reqs, loyaltyPoints, webhooks, wishlists, refunds,
              ledger>>

\* ReviewController.createReview (lines 122-221), with a comment long enough.
CreateReview(u, rating) ==
  /\ IF rating < 1 \/ rating > 5
       THEN /\ last' = Response("createReview", 0, 400, "InvalidRating")
            /\ UNCHANGED reviews
     ELSE IF reviews[u].exists
       THEN /\ last' = Response("createReview", 0, 400, "AlreadyReviewed")
            /\ UNCHANGED reviews
     ELSE /\ reviews' = [reviews EXCEPT ![u] =
                           [exists |-> TRUE, rating |-> rating, status |-> "pending",
                            reports |-> {}]]
          /\ last' = Response("createReview", 0, 201, "none")
  /\ UNCHANGED ratings
  /\ ReviewFrame

\* ReviewController.updateReview (lines 224-308) for a request that gives a
\* new rating (0: the request gives none).
UpdateReview(u, rating) ==
  /\ IF ~reviews[u].exists
       THEN /\ last' = Response("updateReview", 0, 404, "NotFound")
            /\ UNCHANGED reviews
     ELSE IF reviews[u].status = "approved"
       THEN /\ last' = Response("updateReview", 0, 400, "Approved")
            /\ UNCHANGED reviews
     ELSE IF rating > 5
       THEN /\ last' = Response("updateReview", 0, 400, "InvalidRating")
            /\ UNCHANGED reviews
     ELSE /\ reviews' = [reviews EXCEPT ![u].rating = IF rating = 0 THEN @ ELSE rating,
                                        ![u].status = "pending"]
          /\ last' = Response("updateReview", 0, 200, "none")
  /\ UNCHANGED ratings
  /\ ReviewFrame

\* ReviewController.deleteReview (lines 310-366): the author deletes the
\* review; the rating is recomputed when the review was approved.
DeleteReview(u) ==
  /\ IF ~reviews[u].exists
       THEN /\ last' = Response("deleteReview", 0, 404, "NotFound")
            /\ UNCHANGED <<reviews, ratings>>
       ELSE /\ reviews' = [reviews EXCEPT ![u] = NoReview]
            /\ ratings' = IF reviews[u].status = "approved"
                            THEN updateProductRating(reviews', ratings)
                            ELSE ratings
            /\ last' = Response("deleteReview", 0, 200, "none")
  /\ ReviewFrame

\* ReviewController.reportReview (lines 481-557) with a reason: `reporter`
\* reports the review of u; the third report flags it.
ReportReview(reporter, u) ==
  /\ IF ~reviews[u].exists
       THEN /\ last' = Response("reportReview", 0, 404, "NotFound")
            /\ UNCHANGED reviews
     ELSE IF reporter \in reviews[u].reports
       THEN /\ last' = Response("reportReview", 0, 400, "AlreadyReported")
            /\ UNCHANGED reviews
     ELSE LET reports == reviews[u].reports \cup {reporter}
          IN  /\ reviews' = [reviews EXCEPT ![u].reports = reports,
                                             ![u].status =
                                               IF Cardinality(reports) >= FlagThreshold
                                                 THEN "flagged" ELSE @]
              /\ last' = Response("reportReview", 0, 200, "none")
  /\ UNCHANGED ratings
  /\ ReviewFrame

\* ReviewController.moderateReview (lines 945-1048) on the review of u.
ModerateReview(role, u, action) ==
  /\ IF role # "admin"
       THEN /\ last' = Response("moderateReview", 0, 403, "PermissionDenied")
            /\ UNCHANGED <<reviews, ratings>>
     ELSE IF action \notin {"approve", "reject"}
       THEN /\ last' = Response("moderateReview", 0, 400, "InvalidAction")
            /\ UNCHANGED <<reviews, ratings>>
     ELSE IF ~reviews[u].exists
       THEN /\ last' = Response("moderateReview", 0, 404, "NotFound")
            /\ UNCHANGED <<reviews, ratings>>
     ELSE IF reviews[u].status # "pending"
       THEN /\ last' = Response("moderateReview", 0, 400, "NotPending")
            /\ UNCHANGED <<reviews, ratings>>
     ELSE /\ reviews' = [reviews EXCEPT ![u].status =
                           IF action = "approve" THEN "approved" ELSE "rejected"]
          /\ ratings' = IF action = "approve"
                          THEN updateProductRating(reviews', ratings)
                          ELSE ratings
          /\ last' = Response("moderateReview", 0, 200, "none")
  /\ ReviewFrame

\* ------------------------------- OrderController.createOrder, step by step

\* The request has not read the product for its next line yet.
NoDoc == [r \in Recs |-> [quantity |-> 0, reserved |-> 0, sold |-> 0]]

\* createOrder up to the save of the order (lines 15-331), cash on delivery
\* and without a coupon: the request is refused, or its order is stored and
\* the reservation loop is about to start.
CreateOrderStore(u, items) ==
  LET plan == CreatePlan(u, items, NoCoupon, 1000, "cod",
                         inventory, allowBackorders, orders, usedCount)
  IN  /\ IF plan.status # 0
           THEN /\ last' = Response("createOrder", 0, plan.status, plan.error)
                /\ UNCHANGED <<reqs, orders, ledger>>
           ELSE /\ Cardinality(reqs) < MaxInFlight
                /\ Len(orders) < MaxOrders
                /\ orders' = Append(orders, plan.order[1])
                /\ ledger' = Append(ledger, NoEntry)
                /\ reqs' = reqs \cup {[slot |-> FreeSlot, op |-> "reserve", user |-> u,
                                       order |-> Len(orders) + 1, line |-> 1,
                                       found |-> FALSE, doc |-> NoDoc]}
                /\ UNCHANGED last
      /\ UNCHANGED <<inventory, allowBackorders, addresses, sale, totals, wishlists, reviews, ratings,
                     refunds, metadata, variantStock, usedCount, usageHistory, carts,
                     loyaltyPoints, webhooks>>

\* Line 335: Product.findById for the next line; the request holds the product
\* document as it is now.
ReserveFind(r) ==
  /\ r \in reqs
  /\ r.op = "reserve"
  /\ ~r.found
  /\ reqs' = (reqs \ {r}) \cup {[r EXCEPT !.found = TRUE, !.doc = inventory]}
  /\ UNCHANGED <<inventory, allowBackorders, addresses, sale, totals, wishlists, reviews, ratings,
                 refunds, metadata, variantStock, orders, usedCount, usageHistory, carts,
                 loyaltyPoints, webhooks, last, ledger>>

\* Lines 337-338: updateInventory on the document the request holds and
\* product.save(), which writes the paths the method changed with the values
\* of that document; after the last line the cart is deleted (355) and the
\* request answered 201.
ReserveSave(r) ==
  /\ r \in reqs
  /\ r.op = "reserve"
  /\ r.found
  /\ LET items == orders[r.order].items
         item == items[r.line]
         rec == RecOf(item.sku)
         doc == productUpdateInventory(r.doc, item.quantity, item.sku, "reserve")
     IN  /\ inventory' = [inventory EXCEPT ![rec].reserved = doc[rec].reserved]
         /\ ledger' = [ledger EXCEPT ![r.order][rec] = @ + item.quantity]
         /\ IF r.line < Len(items)
              THEN /\ reqs' = (reqs \ {r})
                                \cup {[r EXCEPT !.line = @ + 1, !.found = FALSE, !.doc = NoDoc]}
                   /\ UNCHANGED <<carts, last>>
              ELSE /\ reqs' = reqs \ {r}
                   /\ carts' = [carts EXCEPT ![r.user] = NoCart]
                   /\ last' = Response("createOrder", r.order, 201, "none")
  /\ UNCHANGED <<allowBackorders, addresses, sale, totals, wishlists, reviews, ratings, refunds,
                 metadata, variantStock, orders, usedCount, usageHistory, loyaltyPoints,
                 webhooks>>

\* ------------------------------------------- OrderController.requestReturn

\* order.canReturn, the Order model's virtual: an order can be returned once
\* it is delivered.
canReturn(order) == order.status = "delivered"

\* A line of a return request: {itemId, quantity}; the id of an order item is
\* its position in the order.
ReturnLine(i, q) == [item |-> i, quantity |-> q]

\* Lines 915-944: the first line of the request that is refused, checked
\* against the order as it is stored.
RECURSIVE CheckReturn(_, _, _)
CheckReturn(order, ritems, k) ==
  IF k > Len(ritems) THEN <<0, "none">>
  ELSE LET ri == ritems[k] IN
       IF ri.item \notin 1 .. Len(order.items) THEN <<400, "ItemNotFound">>
       ELSE IF \E j \in 1 .. Len(order.returns) :
                 order.returns[j].item = ri.item /\ order.returns[j].status # "rejected"
         THEN <<400, "AlreadyReturned">>
       ELSE IF ri.quantity > order.items[ri.item].quantity
         THEN <<400, "QuantityExceedsPurchased">>
       ELSE CheckReturn(order, ritems, k + 1)

\* Lines 946-956: one return record per line of the request.
RECURSIVE PushReturns(_, _, _)
PushReturns(returns, ritems, k) ==
  IF k = 0 THEN returns
  ELSE Append(PushReturns(returns, ritems, k - 1),
              [item |-> ritems[k].item, quantity |-> ritems[k].quantity,
               status |-> "requested"])

\* OrderController.requestReturn (lines 877-1003), with a reason.
RequestReturn(u, o, ritems) ==
  /\ reqs = {}
  /\ IF Len(ritems) = 0
       THEN /\ last' = Response("requestReturn", o, 400, "NoItems")
            /\ UNCHANGED orders
     ELSE IF o > Len(orders) \/ (o <= Len(orders) /\ orders[o].user # u)
       THEN /\ last' = Response("requestReturn", o, 404, "NotFound")
            /\ UNCHANGED orders
     ELSE IF ~canReturn(orders[o])
       THEN /\ last' = Response("requestReturn", o, 400, "CannotReturn")
            /\ UNCHANGED orders
     ELSE LET check == CheckReturn(orders[o], ritems, 1) IN
          IF check[1] # 0
            THEN /\ last' = Response("requestReturn", o, check[1], check[2])
                 /\ UNCHANGED orders
            ELSE /\ orders' = [orders EXCEPT ![o].returns =
                                 PushReturns(@, ritems, Len(ritems))]
                 /\ last' = Response("requestReturn", o, 200, "none")
  /\ UNCHANGED <<inventory, allowBackorders, addresses, sale, totals, wishlists, reviews, ratings,
                 refunds, metadata, variantStock, usedCount, usageHistory, carts, reqs,
                 loyaltyPoints, webhooks, ledger>>

\* ------------------------------------------- UserController.manageAddresses

\* The addresses a user keeps at most, and the ids they get.
MaxAddresses == 3

AddressIds == 1 .. MaxAddresses

\* What a request says about isDefault in its address data.
DefaultFlags == {"true", "false", "absent"}

\* The position of the address with this id, 0 when the user has none.
AddressIndex(addrs, id) ==
  IF \E i \in 1 .. Len(addrs) : addrs[i].id = id
    THEN CHOOSE i \in 1 .. Len(addrs) : addrs[i].id = id
    ELSE 0

NoDefaults(addrs) == [i \in 1 .. Len(addrs) |-> [addrs[i] EXCEPT !.isDefault = FALSE]]

\* addAddress (part_002 lines 439-465), with the required fields given; the
\* new address gets the id `id`.
addAddress(addrs, id, flag) ==
  LET isDefault == flag = "true" \/ Len(addrs) = 0
  IN  Append(IF isDefault THEN NoDefaults(addrs) ELSE addrs,
             [id |-> id, isDefault |-> isDefault])

\* updateAddress (part_002 lines 468-481): every key of the updates is copied
\* onto the address, isDefault included.
updateAddress(addrs, i, flag) ==
  IF flag = "absent" THEN addrs
  ELSE [addrs EXCEPT ![i].isDefault = (flag = "true")]

\* deleteAddress (part_002 lines 484-500).
deleteAddress(addrs, i) ==
  LET rest == [j \in 1 .. Len(addrs) - 1 |-> IF j < i THEN addrs[j] ELSE addrs[j + 1]]
  IN  IF addrs[i].isDefault /\ Len(rest) > 0
        THEN [rest EXCEPT ![1].isDefault = TRUE]
        ELSE rest

\* setDefaultAddress (part_002 lines 503-518).
setDefaultAddress(addrs, i) == [NoDefaults(addrs) EXCEPT ![i].isDefault = TRUE]

AddressActions == {"add", "update", "delete", "set-default", "other"}

\* UserController.manageAddresses (part_002 lines 335-436): the helper of the
\* action runs on the user document and the document is saved; a helper that
\* throws leaves the stored user as it was.
ManageAddresses(u, action, id, flag) ==
  LET addrs == addresses[u]
      i == AddressIndex(addrs, id)
  IN  /\ reqs = {}
      /\ IF action \notin {"add", "update", "delete", "set-default"}
           THEN /\ last' = Response("manageAddresses", 0, 400, "InvalidAction")
                /\ UNCHANGED addresses
         ELSE IF action = "add"
           THEN /\ Len(addrs) < MaxAddresses
                /\ i = 0
                /\ addresses' = [addresses EXCEPT ![u] = addAddress(addrs, id, flag)]
                /\ last' = Response("manageAddresses", 0, 200, "none")
         ELSE IF i = 0
           THEN /\ last' = Response("manageAddresses", 0, 500, "AddressNotFound")
                /\ UNCHANGED addresses
         ELSE /\ addresses' =
                   [addresses EXCEPT ![u] =
                      CASE action = "update" -> updateAddress(addrs, i, flag)
                        [] action = "delete" -> deleteAddress(addrs, i)
                        [] OTHER -> setDefaultAddress(addrs, i)]
              /\ last' = Response("manageAddresses", 0, 200, "none")
      /\ UNCHANGED <<inventory, allowBackorders, sale, totals, wishlists, reviews, ratings,
                     refunds, metadata, variantStock, orders, usedCount, usageHistory,
                     carts, reqs, loyaltyPoints, webhooks, ledger>>

\* ------------------------------------------------------------ specifications

\* A request that throws at step f counts as a fault; at most MaxFaults do.
Faulty(f) ==
  IF f = "none" THEN UNCHANGED faults
  ELSE faults < MaxFaults /\ faults' = faults + 1

\* The lines of the orders of the life-cycle specifications.
LifeItems == {<<Line(ProductId, NoSku, 1)>>,
              <<Line(ProductId, NoSku, 1), Line(ProductId, VariantSku, 1)>>}

\* Orders alive at once in the life-cycle specifications.
MaxLifeOrders == 1

LifeIds == 1 .. MaxLifeOrders

InitLife ==
  Init /\ allowBackorders = FALSE /\ carts = [u \in Users |-> IF u = "u1" THEN StartCart ELSE NoCart]

\* Order life cycle under the first controller, one request at a time: "u1"
\* places orders, customers cancel, the admin updates the status.
Next ==
  \/ \E items \in LifeItems, method \in PaymentMethods :
       /\ Len(orders) < MaxLifeOrders
       /\ CreateOrder("u1", items, NoCoupon, 1000, method, "none", 0)
       /\ Faulty("none")
  \/ \E role \in Roles, o \in LifeIds, status \in Statuses :
       UpdateOrderStatus(role, o, status, "none", 0) /\ Faulty("none")
  \/ \E u \in Users, o \in LifeIds :
       CancelOrder(u, o, "none", 0) /\ Faulty("none")

Spec == InitLife /\ [][Next]_vars

\* The lines of the orders of the inventory specification; the second list
\* names the variant twice.
StockItems == {<<Line(ProductId, NoSku, 1)>>,
               <<Line(ProductId, VariantSku, 1), Line(ProductId, VariantSku, 1)>>}

\* The counters the inventory specification follows stay in this range.
InStockRange(inv) ==
  \A r \in Recs :
    /\ inv[r].quantity \in -MaxQty .. 2 * MaxQty
    /\ inv[r].reserved \in -MaxQty .. 2 * MaxQty
    /\ inv[r].sold \in -MaxQty .. 2 * MaxQty

\* Inventory counters with backorders disallowed: orders are placed,
\* cancelled and delivered, and the admin moves counters through the
\* inventory endpoint.
NextInventory ==
  \/ \E items \in StockItems :
       /\ Len(orders) < MaxLifeOrders
       /\ CreateOrder("u1", items, NoCoupon, 1000, "cod", "none", 0)
       /\ Faulty("none")
  \/ \E o \in LifeIds, status \in Statuses :
       UpdateOrderStatus("admin", o, status, "none", 0) /\ Faulty("none")
  \/ \E o \in LifeIds :
       CancelOrder("u1", o, "none", 0) /\ Faulty("none")
  \/ \E role \in Roles, q \in 0 .. 1, sku \in {NoSku, VariantSku},
        action \in InventoryActions :
       /\ UpdateInventory(role, q, sku, action)
       /\ InStockRange(inventory')
       /\ Faulty("none")

SpecInventory == InitLife /\ [][NextInventory]_vars

\* The item lists of the stock specification: every single line, the two-line
\* lists of quantity 1, the malformed ones.
StockLists ==
  {<<l>> : l \in ValidLines \cup BadLines}
    \cup {<<Line(ProductId, s1, 1), Line(ProductId, s2, 1)>> :
            s1 \in {NoSku, VariantSku}, s2 \in {NoSku, VariantSku}}
    \cup {<<>>}

InitStock == Init /\ carts = [u \in Users |-> StartCart]

\* Stock checks at creation: "u1" places cash-on-delivery orders, with
\* backorders allowed or not.
NextStock ==
  \E items \in StockLists :
    CreateOrder("u1", items, NoCoupon, 1000, "cod", "none", 0) /\ Faulty("none")

SpecStock == InitStock /\ [][NextStock]_vars

\* The item lists of the coupon specifications: one below the minimum purchase
\* of SAVE20 and one that meets it.
CouponItems == {<<Line(ProductId, NoSku, 1)>>, <<Line(ProductId, VariantSku, 1)>>}

InitCoupons == Init /\ allowBackorders = TRUE /\ carts = [u \in Users |-> StartCart]

\* Coupons at creation, one request at a time: both users place orders with
\* and without a coupon code.
NextCoupons ==
  \E u \in Users, items \in CouponItems,
     code \in {NoCoupon, "SAVE20", "SHIP5"}, shippingCost \in ShippingCosts :
    CreateOrder(u, items, code, shippingCost, "cod", "none", 0) /\ Faulty("none")

SpecCoupons == InitCoupons /\ [][NextCoupons]_vars

\* Creations that overlap: a request does its reads, other requests run, and
\* then it writes.
NextRace ==
  \/ \E u \in Users, items \in CouponItems, code \in {NoCoupon, "FIRST1"} :
       CreateOrderBegin(u, items, code, 1000, "cod") /\ Faulty("none")
  \/ \E r \in reqs : CreateOrderCommit(r, "none", 0) /\ Faulty("none")

SpecRace == InitCoupons /\ [][NextRace]_vars

\* Cancellations that overlap, next to the admin's status updates.
NextCancel ==
  \/ \E items \in LifeItems :
       /\ Len(orders) < MaxLifeOrders
       /\ CreateOrder("u1", items, NoCoupon, 1000, "cod", "none", 0)
       /\ Faulty("none")
  \/ \E o \in LifeIds, status \in Statuses :
       UpdateOrderStatus("admin", o, status, "none", 0) /\ Faulty("none")
  \/ \E u \in Users, o \in LifeIds : CancelOrderBegin(u, o) /\ Faulty("none")
  \/ \E r \in reqs : CancelOrderCommit(r, "none", 0) /\ Faulty("none")

SpecCancel == InitLife /\ [][NextCancel]_vars

\* The item lists of the second controller's orders.
PayItems == {<<Line(ProductId, NoSku, 1)>>, <<Line(ProductId, VariantSku, 1)>>}

\* The statuses the admin asks for in the payment specification: the way from
\* confirmed to out_for_delivery.
ForwardStatuses == {"confirmed", "processing", "ready_for_shipment", "shipped",
                    "out_for_delivery"}

\* Orders of the second controller and their payments: "u1" places and
\* cancels orders, pays through the gateway, whose events arrive in any order,
\* and the admin moves the orders forward and refunds.
NextPay ==
  \/ \E items \in PayItems :
       /\ Len(orders) < MaxLifeOrders
       /\ CreateOrder2("u1", items, NoCoupon, "credit_card", "none", 0)
       /\ Faulty("none")
  \/ \E o \in LifeIds, status \in ForwardStatuses :
       UpdateOrderStatus("admin", o, status, "none", 0) /\ Faulty("none")
  \/ \E o \in LifeIds : CancelOrder2("u1", o, "none", 0) /\ Faulty("none")
  \/ \E o \in LifeIds : CreatePaymentIntent("u1", o, "none") /\ Faulty("none")
  \/ \E o \in LifeIds : HandlePaymentSuccess(o, "none") /\ Faulty("none")
  \/ \E o \in LifeIds : HandlePaymentFailure(o, "none") /\ Faulty("none")
  \/ \E o \in LifeIds, amount \in BOOLEAN :
       ProcessRefund(o, amount, "none") /\ Faulty("none")

SpecPay == InitLife /\ [][NextPay]_vars

\* The requests of the failure specification.
FailItems == {<<Line(ProductId, NoSku, 1)>>,
              <<Line(ProductId, NoSku, 1), Line(ProductId, VariantSku, 1)>>,
              <<Line(ProductId, VariantSku, 2)>>,
              <<Line("nope", NoSku, 1)>>}

\* Creations that are refused or that throw: under either controller, a step
\* of the handler may throw, after n lines of a loop when it is the loop.
NextFailure ==
  \/ \E items \in FailItems, code \in {NoCoupon, "SAVE20"}, f \in {"none", "save"} :
       CreateOrder("u1", items, code, 1000, "cod", f, 0) /\ Faulty(f)
  \/ \E items \in FailItems, f \in {"none", "reserve", "save"}, n \in 0 .. 1 :
       CreateOrder2("u1", items, NoCoupon, "cod", f, n) /\ Faulty(f)

SpecFailure == InitLife /\ [][NextFailure]_vars

\* The guest carts of the cart specification: an empty one, one whose only
\* line is skipped, and ones with a line to merge.
GuestCarts == {<<>>,
               <<Line(ProductId, VariantSku, 0)>>,
               <<Line(ProductId, NoSku, 1)>>,
               <<Line(ProductId, NoSku, 0), Line(ProductId, VariantSku, 1)>>}

InitCart == Init /\ carts["u2"] = NoCart

\* The cart stays within the quantity the cart specification follows.
InCartRange(cart) == CartQuantity(cart.items) <= MaxCartQty

\* The cart of "u1": every cart operation, and the order "u1" places under the
\* first controller, with a coupon code or without.
NextCart ==
  \/ \E p \in {ProductId, "nope"}, sku \in {NoSku, VariantSku, "bad"}, q \in 0 .. MaxQty :
       AddToCart("u1", p, sku, q) /\ InCartRange(carts'["u1"]) /\ Faulty("none")
  \/ \E i \in 1 .. 2, q \in 0 .. MaxQty :
       UpdateCartItem("u1", i, q) /\ InCartRange(carts'["u1"]) /\ Faulty("none")
  \/ \E i \in 1 .. 2 : RemoveFromCart("u1", i) /\ Faulty("none")
  \/ ClearCart("u1") /\ Faulty("none")
  \/ \E guest \in GuestCarts, f \in {"none", "save"} :
       MergeGuestCart("u1", guest, f) /\ InCartRange(carts'["u1"]) /\ Faulty(f)
  \/ \E i \in 1 .. 2 : SaveForLater("u1", i) /\ Faulty("none")
  \/ \E code \in CartCouponCodes \cup {"BOGUS"} :
       ApplyCartCoupon("u1", code) /\ Faulty("none")
  \/ RemoveCartCoupon("u1") /\ Faulty("none")
  \/ \E items \in CouponItems, code \in {NoCoupon, "SAVE20"} :
       /\ Len(orders) < MaxLifeOrders
       /\ CreateOrder("u1", items, code, 1000, "cod", "none", 0)
       /\ Faulty("none")

SpecCart == InitCart /\ [][NextCart]_vars

\* Discounts: "u1" places orders under either controller with the coupons of
\* each, and applies the cart's coupons to a cart.
NextDiscount ==
  \/ \E items \in CouponItems, code \in {NoCoupon, "SAVE20", "BIG60", "HALF50"} :
       CreateOrder("u1", items, code, 1000, "cod", "none", 0) /\ Faulty("none")
  \/ \E items \in CouponItems, code \in {NoCoupon, "SAVE20", "WELCOME10"} :
       CreateOrder2("u1", items, code, "cod", "none", 0) /\ Faulty("none")
  \/ \E sku \in {NoSku, VariantSku} :
       AddToCart("u1", ProductId, sku, 1) /\ InCartRange(carts'["u1"]) /\ Faulty("none")
  \/ \E code \in CartCouponCodes : ApplyCartCoupon("u1", code) /\ Faulty("none")

SpecDiscount == InitCoupons /\ [][NextDiscount]_vars

\* The gateway's events: "u1" places an order by card and asks for the payment
\* intent, the admin refunds, and the gateway delivers events of every type,
\* with a good signature or a bad one; charge.refunded comes for payments
\* that were made.
NextWebhook ==
  \/ \E items \in PayItems :
       /\ Len(orders) < MaxLifeOrders
       /\ CreateOrder2("u1", items, NoCoupon, "credit_card", "none", 0)
       /\ Faulty("none")
  \/ \E o \in LifeIds : CreatePaymentIntent("u1", o, "none") /\ Faulty("none")
  \/ \E o \in LifeIds, amount \in BOOLEAN :
       ProcessRefund(o, amount, "none") /\ Faulty("none")
  \/ \E verified \in BOOLEAN, type \in EventTypes, o \in LifeIds, f \in {"none", "save"} :
       /\ type = "charge.refunded" =>
            o <= Len(orders) /\ orders[o].payStatus \in {"completed", "refunded"}
       /\ HandleStripeWebhook(verified, type, o, f)
       /\ Faulty(f)

SpecWebhook == InitLife /\ [][NextWebhook]_vars

\* The steps of createOrder after the save of the order that make the handler
\* throw.
AfterSave == {"reserve", "coupon", "cart", "payment", "email"}

\* Creations under the first controller in which any step may throw: "u1"
\* orders by card or cash on delivery, with a coupon or without.
NextSteps ==
  \E items \in LifeItems, code \in {NoCoupon, "FIRST1"}, method \in PaymentMethods,
     f \in AfterSave \cup {"save", "send", "none"}, n \in 0 .. 1 :
    CreateOrder("u1", items, code, 1000, method, f, n) /\ Faulty(f)

SpecSteps == InitLife /\ [][NextSteps]_vars

\* Reviews of the product: users write, change and delete their reviews, the
\* admin approves or rejects them.
NextReviews ==
  \/ \E u \in Reviewers, rating \in RatingValues : CreateReview(u, rating) /\ Faulty("none")
  \/ \E u \in Reviewers, rating \in RatingValues : UpdateReview(u, rating) /\ Faulty("none")
  \/ \E u \in Reviewers : DeleteReview(u) /\ Faulty("none")
  \/ \E role \in Roles, u \in Reviewers, action \in {"approve", "reject", "hide"} :
       ModerateReview(role, u, action) /\ Faulty("none")

SpecReviews == InitLife /\ [][NextReviews]_vars

\* The guest carts of the quantity specification: lines of quantity -1, 0 and 1.
QuantityGuests ==
  {<<Line(ProductId, sku, q)>> : sku \in {NoSku, VariantSku}, q \in -1 .. 1}

\* Every line of the cart stays within the quantities the quantity
\* specification follows.
InQuantityRange(cart) ==
  \A i \in 1 .. Len(cart.items) : cart.items[i].quantity \in -MaxCartQty .. MaxCartQty

\* Quantities in the cart of "u1": items are added, updated and merged from a
\* guest cart with every quantity a request can carry, zero and negative ones
\* included.
NextQuantity ==
  \/ \E sku \in {NoSku, VariantSku}, q \in -1 .. MaxQty :
       AddToCart("u1", ProductId, sku, q) /\ InQuantityRange(carts'["u1"]) /\ Faulty("none")
  \/ \E i \in 1 .. 2, q \in -1 .. MaxQty :
       UpdateCartItem("u1", i, q) /\ InQuantityRange(carts'["u1"]) /\ Faulty("none")
  \/ \E guest \in QuantityGuests, f \in {"none", "save"} :
       MergeGuestCart("u1", guest, f) /\ InQuantityRange(carts'["u1"]) /\ Faulty(f)

SpecQuantity == InitCart /\ [][NextQuantity]_vars

\* The price and totals specification: sales start and end, customers add
\* lines at the price of the moment, read their cart and apply cart coupons;
\* v1 orders are created at the price of the moment.
TotalsItems == {<<Line(ProductId, NoSku, 1)>>, <<Line(ProductId, VariantSku, 2)>>}

InitTotals == Init /\ allowBackorders = TRUE /\ carts = [u \in Users |-> NoCart]

InTotalsRange ==
  /\ \A u \in Users : Len(carts'[u].items) <= 2
  /\ CartQuantity(carts'["u1"].items) <= MaxQty
  /\ carts'["u2"] = NoCart

NextTotals ==
  \/ \E s \in Sales : \E role \in Roles :
       UpdateProduct(role, s) /\ Faulty("none")
  \/ \E sku \in {NoSku, VariantSku} : \E q \in 1 .. MaxQty :
       AddToCart("u1", ProductId, sku, q) /\ InTotalsRange /\ Faulty("none")
  \/ \E u \in Users : GetCart(u) /\ Faulty("none")
  \/ \E code \in CartCouponCodes :
       ApplyCartCoupon("u1", code) /\ Faulty("none")
  \/ \E items \in TotalsItems :
       /\ Len(orders) < MaxLifeOrders
       /\ CreateOrder("u1", items, NoCoupon, 0, "cod", "none", 0)
       /\ Faulty("none")

SpecTotals == InitTotals /\ [][NextTotals]_vars

\* Creations of one line each that overlap while backorders are disallowed.
OversellItems == {<<Line(ProductId, sku, q)>> : sku \in {NoSku, VariantSku}, q \in Quantities}

InitOversell == Init /\ allowBackorders = FALSE /\ carts = [u \in Users |-> StartCart]

NextOversell ==
  \/ \E u \in Users, items \in OversellItems :
       CreateOrderBegin(u, items, NoCoupon, 1000, "cod") /\ Faulty("none")
  \/ \E r \in reqs : CreateOrderCommit(r, "none", 0) /\ Faulty("none")

SpecOversell == InitOversell /\ [][NextOversell]_vars

\* Creations whose reservation loops overlap: between the read of a product
\* and its save another request may read and save the same product.
ReserveLists == {<<Line(ProductId, NoSku, 1)>>,
                 <<Line(ProductId, VariantSku, 1), Line(ProductId, NoSku, 1)>>}

NextReserve ==
  \/ \E u \in Users, items \in ReserveLists : CreateOrderStore(u, items) /\ Faulty("none")
  \/ \E r \in reqs : ReserveFind(r) /\ Faulty("none")
  \/ \E r \in reqs : ReserveSave(r) /\ Faulty("none")

SpecReserve == InitCoupons /\ [][NextReserve]_vars

\* Loyalty points: "u1" places orders by card under the first controller, the
\* admin moves them through their statuses, and the gateway delivers the
\* payment-success event of an order, possibly more than once.
NextPoints ==
  \/ \E items \in LifeItems :
       /\ Len(orders) < MaxLifeOrders
       /\ CreateOrder("u1", items, NoCoupon, 1000, "credit_card", "none", 0)
       /\ Faulty("none")
  \/ \E o \in LifeIds, status \in Statuses :
       UpdateOrderStatus("admin", o, status, "none", 0) /\ Faulty("none")
  \/ \E o \in LifeIds : HandlePaymentSuccess(o, "none") /\ Faulty("none")

SpecPoints == InitLife /\ [][NextPoints]_vars

\* Reports: "u1" and "u2" write and change reviews, the admin moderates them,
\* and every user may report the review of "u1".
NextReports ==
  \/ \E u \in {"u1", "u2"}, rating \in {1, 5} : CreateReview(u, rating) /\ Faulty("none")
  \/ \E u \in {"u1", "u2"}, rating \in {0, 4} : UpdateReview(u, rating) /\ Faulty("none")
  \/ \E u \in {"u1", "u2"}, action \in {"approve", "reject"} :
       ModerateReview("admin", u, action) /\ Faulty("none")
  \/ \E reporter \in Reviewers : ReportReview(reporter, "u1") /\ Faulty("none")

SpecReports == InitLife /\ [][NextReports]_vars

\* The return requests: one line or two, of an item of the order or of none,
\* for a quantity up to one more than was bought.
ReturnLines == {ReturnLine(i, q) : i \in 0 .. 2, q \in 1 .. MaxQty + 1}

ReturnLists == {<<l>> : l \in ReturnLines}
                 \cup {<<l1, l2>> : l1 \in ReturnLines, l2 \in ReturnLines}
                 \cup {<<>>}

\* Returns: "u1" places an order, the admin moves it to delivered, and the
\* users ask for returns.
NextReturns ==
  \/ \E items \in {<<Line(ProductId, NoSku, MaxQty)>>,
                   <<Line(ProductId, NoSku, 1), Line(ProductId, VariantSku, 1)>>} :
       /\ Len(orders) < MaxLifeOrders
       /\ CreateOrder("u1", items, NoCoupon, 1000, "cod", "none", 0)
       /\ Faulty("none")
  \/ \E o \in LifeIds, status \in ForwardStatuses \cup {"delivered"} :
       UpdateOrderStatus("admin", o, status, "none", 0) /\ Faulty("none")
  \/ \E u \in Users, o \in LifeIds, ritems \in ReturnLists :
       RequestReturn(u, o, ritems) /\ Faulty("none")

SpecReturns == InitLife /\ [][NextReturns]_vars

\* Address books: the users add, change, delete and choose addresses.
NextAddresses ==
  \E u \in Users, action \in AddressActions, id \in AddressIds, flag \in DefaultFlags :
    ManageAddresses(u, action, id, flag) /\ Faulty("none")

SpecAddresses == InitLife /\ [][NextAddresses]_vars

\* ------------------------------------------------------------------ claims

\* The transition table as the specification states it.
TransitionTable ==
  [s \in Statuses |->
     CASE s = "pending" -> {"confirmed", "cancelled"}
       [] s = "confirmed" -> {"processing", "cancelled"}
       [] s = "processing" -> {"ready_for_shipment", "cancelled"}
       [] s = "ready_for_shipment" -> {"shipped"}
       [] s = "shipped" -> {"out_for_delivery", "delivered"}
       [] s = "out_for_delivery" -> {"delivered"}
       [] s = "delivered" -> {"refunded"}
       [] OTHER -> {}]

\* C1: an admin status update of an order from status s to status t is applied
\* exactly when t is listed for s in the transition table; every other request
\* is answered 400 InvalidTransition and leaves the order (its status and its
\* payment record) and every inventory counter as they were.
C1_AdminTransitions ==
  [][\A o \in 1 .. Len(orders), t \in Statuses :
       UpdateOrderStatus("admin", o, t, "none", 0) =>
         IF t \in TransitionTable[orders[o].status]
           THEN /\ orders'[o].status = t
                /\ last' = Response("updateOrderStatus", o, 200, "none")
           ELSE /\ last' = Response("updateOrderStatus", o, 400, "InvalidTransition")
                /\ orders' = orders
                /\ inventory' = inventory
                /\ metadata' = metadata
                /\ variantStock' = variantStock]_vars

\* C1 witness: the admin asked for a status the table does not list for a
\* shipped order, and was refused.
C1_Witness ==
  /\ last = Response("updateOrderStatus", 1, 400, "InvalidTransition")
  /\ Len(orders) >= 1
  /\ orders[1].status = "shipped"

\* C2: for the product's record and for the variant's, 0 <= reserved <=
\* quantity holds after any sequence of reserve, sell and release calls that
\* each succeeded, starting from a state where it holds.
C2_ReservedWithinQuantity ==
  \A r \in Recs :
    /\ 0 <= inventory[r].reserved
    /\ inventory[r].reserved <= inventory[r].quantity

\* C3: once an order is cancelled and no cancel request for it is still
\* running, every reserved counter holds what it would hold had the order
\* never been created: the order has taken back exactly what its creation
\* added, however many cancel requests were made, one after the other or at
\* once.
C3_CancelRestoresOnce ==
  \A o \in 1 .. Len(orders) :
    (orders[o].status = "cancelled" /\ \A r \in reqs : r.order # o)
      => ledger[o] = NoEntry

\* C4: every stored order satisfies total = subtotal + shipping + tax -
\* discount over the amount fields it holds, and its total is not negative.
C4_GrandTotalIdentity ==
  \A o \in 1 .. Len(orders) :
    LET a == orders[o].amount IN
    /\ a.total = a.subtotal + a.shipping + a.tax - a.discount
    /\ a.total >= 0

\* The item lists of StockLists whose lines all name the product and a record
\* of it.
WellFormed(items) ==
  /\ Len(items) > 0
  /\ \A i \in 1 .. Len(items) : items[i] \in ValidLines

C6_StatusWritesFollowTable ==
  [][\A o \in 1 .. Len(orders) :
       orders'[o].status # orders[o].status =>
         orders'[o].status \in TransitionTable[orders[o].status]]_vars

\* C7: a cancel request of the order's owner succeeds and sets the status to
\* cancelled when the status is pending, confirmed or processing; in every
\* other status it is refused and leaves the order and the stock as they were.
C7_CancelWhilePendingConfirmedProcessing ==
  [][\A o \in 1 .. Len(orders) :
       CancelOrder2(orders[o].user, o, "none", 0) =>
         IF orders[o].status \in {"pending", "confirmed", "processing"}
           THEN /\ orders'[o].status = "cancelled"
                /\ last'.code = 200
           ELSE /\ last'.code = 400
                /\ orders' = orders
                /\ inventory' = inventory
                /\ metadata' = metadata
                /\ variantStock' = variantStock]_vars

OrdersCarrying(ords, u, c) ==
  {o \in 1 .. Len(ords) : ords[o].user = u /\ ords[o].discountCode = c}

\* C9: a creation that names a coupon with a per-user limit L is refused when
\* the user already has L orders that carry the coupon, so no user ever has
\* more than L orders carrying it.
C9_UserUsageLimit ==
  [][\A u \in Users, c \in CouponCodes :
       Coupons[c].userUsageLimit # 0 =>
         /\ Cardinality(OrdersCarrying(orders', u, c)) <= Coupons[c].userUsageLimit
         /\ \A items \in CouponItems, shippingCost \in ShippingCosts :
              (/\ Cardinality(OrdersCarrying(orders, u, c)) >= Coupons[c].userUsageLimit
               /\ CreateOrder(u, items, c, shippingCost, "cod", "none", 0))
                => /\ last'.code = 400
                   /\ orders' = orders
                   /\ usedCount' = usedCount]_vars

\* C9 witness: a user whose order carries SAVE20 named it again, while the
\* coupon had uses left, and was refused.
C9_Witness ==
  /\ last = Response("createOrder", 0, 400, "CouponUserLimit")
  /\ \E u \in Users : Cardinality(OrdersCarrying(orders, u, "SAVE20")) = 1
  /\ usedCount["SAVE20"] < Coupons["SAVE20"].usageLimit

\* C10: usedCount of a coupon never exceeds its usageLimit, however the
\* creations that apply it overlap, and a creation that validates the coupon
\* when usedCount has reached usageLimit is refused.
C10_UsedCountWithinLimit ==
  [][\A c \in CouponCodes :
       Coupons[c].usageLimit # 0 =>
         /\ usedCount'[c] <= Coupons[c].usageLimit
         /\ \A u \in Users, items \in CouponItems :
              (/\ usedCount[c] >= Coupons[c].usageLimit
               /\ CreateOrderBegin(u, items, c, 1000, "cod"))
                => /\ last' = Response("createOrder", 0, 400, "CouponUsageLimit")
                   /\ reqs' = reqs]_vars

\* C10 witness: two creations that overlapped both applied FIRST1, and its
\* usedCount is 1.
C10_Witness ==
  /\ Len(orders) = 2
  /\ orders[1].discountCode = "FIRST1"
  /\ orders[2].discountCode = "FIRST1"
  /\ usedCount["FIRST1"] = 1

\* C11: a coupon whose minimum purchase exceeds the subtotal is rejected, both
\* when it is applied to a cart and when it is named at order creation: the
\* request reports a failure, no coupon is attached to the cart, no order is
\* stored and no discount is granted.
C11_MinimumPurchaseRejected ==
  [][/\ \A code \in CartCouponCodes :
          (/\ ApplyCartCoupon("u1", code)
           /\ carts["u1"].exists
           /\ Len(carts["u1"].items) > 0
           /\ ~HasUnpricedLine(carts["u1"].items)
           /\ CartSubtotal(carts["u1"].items) < CartCoupons[code].minPurchase)
            => /\ last'.code >= 400
               /\ carts' = carts
     /\ \A items \in CouponItems, code \in CouponCodes :
          (/\ CreateOrder("u1", items, code, 1000, "cod", "none", 0)
           /\ Subtotal(items) < Coupons[code].minimumPurchase)
            => /\ last'.code >= 400
               /\ orders' = orders]_vars

\* The discount of a coupon as the rules state it: the percentage of the
\* subtotal, capped when a cap is present; the smaller of value and subtotal
\* for a fixed coupon.
StatedDiscount(type, value, cap, subtotal) ==
  CASE type = "percentage" ->
         LET d == (subtotal * value) \div 100
         IN  IF cap # 0 THEN Min(d, cap) ELSE d
    [] type = "fixed" -> Min(value, subtotal)
    [] OTHER -> 0

\* C12: the discount recorded for a coupon that applies to the subtotal is the
\* stated one (percentage of the subtotal, capped at maxDiscountAmount; the
\* smaller of value and subtotal for a fixed coupon) and so never exceeds the
\* subtotal it was computed from: on the orders created and on the cart.
C12_DiscountWithinSubtotal ==
  [][/\ \A items \in CouponItems, code \in CouponCodes :
          (/\ CreateOrder("u1", items, code, 1000, "cod", "none", 0)
           /\ Len(orders') > Len(orders)
           /\ Coupons[code].appliesTo = "subtotal")
            => LET d == orders'[Len(orders')].amount.discount
                   c == Coupons[code]
               IN  /\ d = StatedDiscount(c.discountType, c.discountValue,
                                         c.maxDiscountAmount, Subtotal(items))
                   /\ d <= Subtotal(items)
     /\ \A code \in CartCouponCodes :
          (/\ ApplyCartCoupon("u1", code)
           /\ last'.code = 200
           /\ CartCoupons[code].discountType # "shipping"
           /\ CartSubtotal(carts["u1"].items) >= CartCoupons[code].minPurchase)
            => LET d == carts'["u1"].discount
                   c == CartCoupons[code]
               IN  /\ d = StatedDiscount(c.discountType, c.value, 0,
                                         CartSubtotal(carts["u1"].items))
                   /\ d <= CartSubtotal(carts["u1"].items)]_vars

\* C13: the usedCount and the usage history of a coupon change only in a step
\* that stores an order applying that coupon, and then usedCount grows by
\* exactly one and the history by exactly one record; the coupons the order
\* does not apply, and every other operation (cart operations, refused
\* creations), leave them as they were.
C13_CouponUsageFrame ==
  [][\A c \in CouponCodes :
       IF /\ Len(orders') = Len(orders) + 1
          /\ orders'[Len(orders')].discountCode = c
          /\ last'.code = 201
         THEN /\ usedCount'[c] = usedCount[c] + 1
              /\ usageHistory'[c] = usageHistory[c] + 1
         ELSE /\ usedCount'[c] = usedCount[c]
              /\ usageHistory'[c] = usageHistory[c]]_vars

\* C14: when the admin moves an order to delivered, every item of the order is
\* sold: on the inventory record of each item, quantity and reserved go down
\* by the quantities of the order's items on that record and sold goes up by
\* them.
C14_DeliveredSellsEveryItem ==
  [][\A o \in LifeIds :
       (/\ UpdateOrderStatus("admin", o, "delivered", "none", 0)
        /\ last'.code = 200)
         => \A r \in Recs :
              LET q == QtyFor(orders[o].items, r)
              IN  /\ inventory'[r].quantity = inventory[r].quantity - q
                  /\ inventory'[r].reserved = inventory[r].reserved - q
                  /\ inventory'[r].sold = inventory[r].sold + q]_vars

\* An order of two lines was delivered and both records show the sale.
C14_Witness ==
  /\ last = Response("updateOrderStatus", 1, 200, "none")
  /\ Len(orders) >= 1
  /\ orders[1].status = "delivered"
  /\ Len(orders[1].items) = 2
  /\ inventory["base"].sold = 1
  /\ inventory[VariantSku].sold = 1

\* C15: when an order whose payment was captured (the gateway reported the
\* success and the order records the payment as completed) is cancelled, the
\* refund of the payment adapter is invoked for the order and its payment
\* status becomes refunded; when no payment was captured, a cancellation
\* invokes no refund.
C15_CancelRefundsCapturedPayment ==
  [][\A o \in LifeIds :
       (/\ CancelOrder2("u1", o, "none", 0)
        /\ last'.code = 200)
         => IF orders[o].payStatus = "completed"
              THEN /\ o \in refunds'
                   /\ orders'[o].payStatus = "refunded"
              ELSE refunds' = refunds]_vars

\* C16: an event with a verified signature about the payment of a stored
\* order is acknowledged, and payment_intent.succeeded leaves the order
\* confirmed with its payment completed, payment_intent.payment_failed leaves
\* the payment failed and the status as it was, charge.refunded leaves the
\* order refunded.
C16_WebhookEvents ==
  [][\A type \in EventTypes, o \in LifeIds :
       (/\ HandleStripeWebhook(TRUE, type, o, "none")
        /\ o <= Len(orders)
        /\ orders[o].transactionId)
         => /\ last'.code = 200
            /\ type = "payment_intent.succeeded" =>
                 orders'[o].status = "confirmed" /\ orders'[o].payStatus = "completed"
            /\ type = "payment_intent.payment_failed" =>
                 orders'[o].payStatus = "failed" /\ orders'[o].status = orders[o].status
            /\ type = "charge.refunded" => orders'[o].status = "refunded"]_vars

\* What a creation that threw at step f, after the save, has left of order
\* `o` made from `items` with coupon `code`: the order is stored and pending,
\* the lines reserved before the throw are reserved, the coupon usage written
\* before the throw is written.
LeftInPlace(items, code, f, n, o) ==
  LET k == IF f = "reserve" THEN n ELSE Len(items)
  IN  /\ Len(orders') = Len(orders) + 1
      /\ o.items = items
      /\ o.status = "pending"
      /\ \A r \in Recs :
           inventory'[r].reserved = inventory[r].reserved + QtyFor(SubSeq(items, 1, k), r)
      /\ usedCount'[code] =
           IF StageIndex("coupon") < StageIndex(f) THEN usedCount[code] + 1
           ELSE usedCount[code]

\* C17 as stated: a creation that fails at a step after the order was saved
\* leaves the order stored and pending with payment status processing or
\* failed, and takes back nothing of what it did.
C17_AsStated ==
  [][\A items \in LifeItems, method \in PaymentMethods, f \in AfterSave, n \in 0 .. 1 :
       CreateOrder("u1", items, "FIRST1", 1000, method, f, n)
         => LET o == orders'[Len(orders')]
            IN  /\ LeftInPlace(items, "FIRST1", f, n, o)
                /\ o.payStatus \in {"processing", "failed"}]_vars

\* C17: a creation that fails at a step after the order was saved leaves the
\* order stored and pending, with the payment status it was saved with
\* (processing for a payment through the gateway, pending for cash on
\* delivery), and takes back nothing of what it did: the lines reserved and
\* the coupon usage written before the failure stay.
C17_FailureAfterSaveKeepsOrder ==
  [][\A items \in LifeItems, method \in PaymentMethods, f \in AfterSave, n \in 0 .. 1 :
       CreateOrder("u1", items, "FIRST1", 1000, method, f, n)
         => LET o == orders'[Len(orders')]
            IN  /\ LeftInPlace(items, "FIRST1", f, n, o)
                /\ o.payStatus = IF method = "cod" THEN "pending" ELSE "processing"]_vars

\* The creation of the payment intent threw: the order is stored, pending and
\* processing, its line is reserved and the coupon usage is recorded.
C17_Witness ==
  /\ last = Response("createOrder", 1, 500, "Failed")
  /\ Len(orders) = 1
  /\ orders[1].status = "pending"
  /\ orders[1].payStatus = "processing"
  /\ ~orders[1].transactionId
  /\ inventory["base"].reserved = 1
  /\ usedCount["FIRST1"] = 1
  /\ ~carts["u1"].exists

\* C18: a failure of the confirmation email, in the preparation of its
\* attachment or in the sending, does not fail the creation: the request is
\* answered with success for the order it stored.
C18_EmailFailureStillSucceeds ==
  [][\A items \in LifeItems, code \in {NoCoupon, "FIRST1"}, method \in PaymentMethods,
        f \in {"email", "send"} :
       CreateOrder("u1", items, code, 1000, method, f, 0)
         => /\ Len(orders') = Len(orders) + 1
            /\ last' = Response("createOrder", Len(orders'), 201, "none")]_vars

\* The mean of the ratings of the approved reviews, rounded to one decimal
\* (in tenths); 0 when there are none.
MeanOfApproved(revs) ==
  LET approved == Approved(revs)
      n == Cardinality(approved)
      total == SumRatings(revs, approved)
  IN  IF n = 0 THEN 0
      ELSE CHOOSE t \in 0 .. 50 :
             /\ 2 * n * t - n <= 20 * total
             /\ 20 * total < 2 * n * t + n

\* C19: after every approval of a review and after every deletion of an
\* approved review, the stored rating count of the product is the number of its
\* approved reviews (0 when none remain), the stored average is their mean
\* rounded to one decimal, and the stored distribution holds the number of
\* approved reviews of each rating.
C19_RatingsMatchApprovedReviews ==
  [][\A u \in Reviewers :
       (\/ ModerateReview("admin", u, "approve") /\ last'.code = 200
        \/ DeleteReview(u) /\ last'.code = 200 /\ reviews[u].status = "approved")
         => /\ ratings'.count = Cardinality(Approved(reviews'))
            /\ ratings'.average = MeanOfApproved(reviews')
            /\ \A r \in 1 .. 5 :
                 ratings'.distribution[r] =
                   Cardinality({v \in Approved(reviews') : reviews'[v].rating = r})]_vars

\* C20: a stored cart has at least one item: whatever cart operations and
\* order creations have run, no user has a cart document without lines.
C20_StoredCartHasItems ==
  \A u \in Users : carts[u].exists => Len(carts[u].items) >= 1

\* C21: every line of every stored cart has a quantity of at least 1, after
\* any sequence of addToCart, updateCartItem and mergeGuestCart requests,
\* whatever quantities the requests carry.
C21_CartQuantitiesPositive ==
  \A u \in Users :
    \A i \in 1 .. Len(carts[u].items) : carts[u].items[i].quantity >= 1

\* The unit price of a line as stated: the base price of the product or of its
\* variant, less the sale that is active.
StatedUnitPrice(sku) ==
  LET basePrice == PriceBase[RecOf(sku)] IN
  IF sale.type = "percentage" THEN basePrice - (basePrice * sale.amount) \div 100
  ELSE IF sale.type = "fixed" THEN Max(0, basePrice - sale.amount)
  ELSE basePrice

\* The totals as stated over lines that carry their unit price.
StatedTotals(t, items) ==
  /\ t.subtotal = SumOver([i \in 1 .. Len(items) |-> items[i].price * items[i].quantity],
                          1, Len(items))
  /\ 100 * t.tax = 8 * t.subtotal
  /\ t.shipping = (IF t.subtotal >= 5000 THEN 0 ELSE 599)
  /\ t.total = t.subtotal + t.shipping + t.tax - t.discount

\* C22: a new line enters the cart at the unit price with the active sale
\* applied, and an order is priced the same way; the totals of a cart response
\* have the subtotal summed over unit price times quantity, a tax of 8% of the
\* subtotal, shipping 0 from a subtotal of 50.00 and the flat fee below it, and
\* a grand total of subtotal + shipping + tax - discount.
C22_TotalsAsStated ==
  [][/\ \A sku \in {NoSku, VariantSku} : \A q \in 1 .. MaxQty :
          (/\ AddToCart("u1", ProductId, sku, q)
           /\ last'.code = 200
           /\ LineIndex(carts["u1"].items, sku) = 0)
            => \E i \in 1 .. Len(carts'["u1"].items) :
                 /\ carts'["u1"].items[i].sku = sku
                 /\ carts'["u1"].items[i].price = StatedUnitPrice(sku)
     /\ \A u \in Users :
          (GetCart(u) /\ carts[u].exists) => StatedTotals(totals', carts[u].items)
     /\ \A code \in CartCouponCodes :
          (ApplyCartCoupon("u1", code) /\ last'.code = 200)
            => /\ StatedTotals(totals', carts["u1"].items)
               /\ totals'.discount = carts'["u1"].discount
     /\ \A items \in TotalsItems :
          (CreateOrder("u1", items, NoCoupon, 0, "cod", "none", 0) /\ last'.code = 201)
            => orders'[Len(orders')].amount.subtotal
                 = StatedUnitPrice(items[1].sku) * items[1].quantity]_vars

\* The example of the claim: a unit of base price 100.00 on a 20% sale, taken
\* twice, gives 80.00 a unit, 160.00 subtotal, 12.80 tax, free shipping and
\* 172.80 in total.
C22_Witness ==
  /\ sale = [type |-> "percentage", amount |-> 20]
  /\ carts["u1"].exists
  /\ carts["u1"].items = <<CartLine(VariantSku, 2, 8000)>>
  /\ totals = [subtotal |-> 16000, tax |-> 1280, shipping |-> 0, discount |-> 0,
               total |-> 17280]

\* TRUE when reserved exceeds quantity on some inventory record.
Oversold(inv) == \E r \in Recs : inv[r].reserved > inv[r].quantity

\* C23: with backorders disallowed, stock is oversold only by creations that
\* overlap: the step that takes reserved past quantity is the commit of a
\* request that passed the availability check when it read the product and
\* would be refused by it now, another creation having committed in between;
\* the commit answers 201 all the same.
C23_OversellByOverlap ==
  [][\A r \in reqs :
       (CreateOrderCommit(r, "none", 0) /\ ~Oversold(inventory) /\ Oversold(inventory'))
         => /\ CheckItems(r.plan.order[1].items, 1, inventory, allowBackorders)
                 = <<400, "InsufficientStock">>
            /\ last'.code = 201
            /\ Len(orders) >= 1]_vars

\* Two creations of one unit each of the variant, of which one unit is on
\* hand, have both succeeded with backorders disallowed.
C23_Witness ==
  /\ ~allowBackorders
  /\ Len(orders) = 2
  /\ \A o \in 1 .. 2 : orders[o].items = <<Line(ProductId, VariantSku, 1)>>
  /\ inventory[VariantSku].reserved = 2
  /\ inventory[VariantSku].quantity = 1

\* C24: a creation from a cart, wherever it stops, has done its steps in the stated order
\* (reserve every item, store the order, clear the cart, count the coupon,
\* initiate the payment): an order is stored only with all its items reserved,
\* the coupon usage is counted only once the cart is cleared, and the payment
\* is initiated only for a stored order whose cart is cleared and whose coupon
\* is counted.
C24_StepsInOrder ==
  [][\A items \in LifeItems, method \in PaymentMethods,
        f \in AfterSave \cup {"save", "send", "none"}, n \in 0 .. 1 :
       (CreateOrder("u1", items, "FIRST1", 1000, method, f, n) /\ carts["u1"].exists)
         => LET stored == Len(orders') = Len(orders) + 1
                reservedAll ==
                  \A r \in Recs :
                    inventory'[r].reserved = inventory[r].reserved + QtyFor(items, r)
                cleared == carts'["u1"] = NoCart
                counted == usedCount'["FIRST1"] = usedCount["FIRST1"] + 1
                initiated == stored /\ orders'[Len(orders')].transactionId
            IN  /\ stored => reservedAll
                /\ counted => stored /\ cleared
                /\ initiated => stored /\ cleared /\ counted]_vars

\* C25: once every creation has answered, reserved of each inventory record is
\* the sum of the quantities that the stored orders hold of it, however the
\* creations overlapped.
C25_ReservationsNotLost ==
  reqs = {} =>
    \A r \in Recs :
      inventory[r].reserved
        = SumOver([o \in 1 .. Len(orders) |-> QtyFor(orders[o].items, r)], 1, Len(orders))

\* C26: no order ever takes more out of a reserved counter than its creation
\* put into it: its reservation is resolved (sold or released) at most once,
\* whatever status updates, cancellations and payment events arrive, and in
\* whatever order.
C26_ReservationResolvedOnce ==
  \A o \in 1 .. Len(orders) : \A c \in Counters : ledger[o][c] >= 0

\* C27: a user's loyalty points never exceed one award per order of theirs,
\* the whole-number part of the order's total: no order is paid for in points
\* twice, whatever status updates and payment-success events arrive.
C27_PointsAwardedOnce ==
  \A u \in Users :
    loyaltyPoints[u]
      <= SumOver([o \in 1 .. Len(orders) |->
                    IF orders[o].user = u THEN orders[o].amount.total \div 100 ELSE 0],
                 1, Len(orders))

\* C28: the product's rating count is the number of approved reviews, after
\* every review operation: also once reports have flagged an approved review,
\* and once a flagged or rejected review was edited back to pending.
C28_CountIsApprovedReviews ==
  ratings.count = Cardinality(Approved(reviews))

\* C29: in every stored order, each item has at most one return record that
\* is not rejected, and no return record asks for more than was bought of its
\* item, whatever return requests were made, a request that names an item
\* more than once included.
C29_OneReturnPerItem ==
  \A o \in 1 .. Len(orders) :
    LET returns == orders[o].returns
        items == orders[o].items
    IN  /\ \A i \in 1 .. Len(items) :
             Cardinality({k \in 1 .. Len(returns) :
                            returns[k].item = i /\ returns[k].status # "rejected"}) <= 1
        /\ \A k \in 1 .. Len(returns) :
             /\ returns[k].item \in 1 .. Len(items)
             /\ returns[k].quantity <= items[returns[k].item].quantity

\* C30: a user who has an address has exactly one default address, after any
\* sequence of add, update, delete and set-default requests.
C30_ExactlyOneDefault ==
  \A u \in Users :
    Len(addresses[u]) >= 1
      => Cardinality({i \in 1 .. Len(addresses[u]) : addresses[u][i].isDefault}) = 1

=============================================================================
